---- MODULE Spec2Model ----
(***************************************************************************)
(* Pipeline metadata store (DynamoDbStore) and pipeline lifecycle service  *)
(* (PipelineServ) of the clickstream control plane.                        *)
(*                                                                         *)
(* The single wide table is a function from keys <<id, type>> to items.    *)
(* The sort key `type` is kept structured: `PIPELINE#<pipelineId>#<sk>` is *)
(* <<"PIPELINE", pipelineId, sk>>, `PLUGIN#<id>` is <<"PLUGIN", id>>.      *)
(* An optional value (T | undefined) is a sequence of length 0 or 1.       *)
(* Every remote call (an `await`) of a service handler is one step, so     *)
(* concurrent requests interleave between their remote calls.              *)
(***************************************************************************)
EXTENDS Integers, Sequences, FiniteSets, TLC

VARIABLES
  table,        \* clickStreamTableName: key -> item
  dictionary,   \* dictionaryTableName: name -> dictionary item
  executions,   \* the workflow engine: execution arn -> execution status
  now,          \* Date.now()
  uuid,         \* number of uuidv4() draws made so far
  reqs,         \* the service requests in flight: request id -> handler frame
  out           \* result of the last direct store call (store-level specs)

vars == <<table, dictionary, executions, now, uuid, reqs, out>>

----------------------------------------------------------------------------
(* Bounds *)
MaxTime == 2
MaxReqs == 3
MaxUuid == 1

----------------------------------------------------------------------------
(* Optional values and small helpers *)
None == <<>>
Some(v) == <<v>>
OrElse(opt, d) == IF opt = <<>> THEN d ELSE opt[1]

Put(t, key, item) ==
  [k \in (DOMAIN t) \cup {key} |-> IF k = key THEN item ELSE t[k]]

EmptyTable == [k \in {} |-> {}]

Min(a, b) == IF a <= b THEN a ELSE b
CeilDiv(a, b) == (a + b - 1) \div b
SubSeqOrEmpty(s, from, to) == IF from > to THEN <<>> ELSE SubSeq(s, from, to)

\* Array.prototype.slice(start, end) on 0-based indices, for 0 <= start
Slice(s, startIndex, endIndex) ==
  SubSeqOrEmpty(s, startIndex + 1, Min(endIndex, Len(s)))

\* A pipeline status is whatever JSON the request carried: a primitive string
\* (the service compares it with an ExecutionStatus) or an object with a
\* `status` member (the store's deletePipeline assigns status.status).
Str(s) == [obj |-> FALSE, status |-> s]
Obj(s) == [obj |-> TRUE, status |-> s]

Projects == {"p1"}
PipelineId(n) == "pl" \o ToString(n)
ExecutionName(n) == "main-" \o ToString(n)
ExecutionArn(name) == "arn:" \o name
PipelineIds == {PipelineId(n) : n \in 1..MaxUuid}
VersionTokens == {ToString(t) : t \in 0..MaxTime}

PipelineType(pipelineId, sk) == <<"PIPELINE", pipelineId, sk>>
PipelineKey(projectId, pipelineId, sk) == <<projectId, PipelineType(pipelineId, sk)>>

----------------------------------------------------------------------------
(* DynamoDbStore: pipelines *)

\* Mutant of addPipeline: the execution handle is not stored.
addPipeline_DropsHandle(t, pipeline, clock) ==
  LET key == PipelineKey(pipeline.id, pipeline.pipelineId, "latest")
  IN Put(t, key,
       [ id |-> pipeline.id, type |-> key[2], prefix |-> "PIPELINE",
         pipelineId |-> pipeline.pipelineId, projectId |-> pipeline.projectId,
         name |-> pipeline.name, status |-> pipeline.status,
         executionName |-> OrElse(pipeline.executionName, ""),
         executionArn |-> "",
         version |-> OrElse(pipeline.version, ToString(clock)),
         versionTag |-> "latest", createAt |-> OrElse(pipeline.createAt, clock),
         updateAt |-> clock, operator |-> OrElse(pipeline.operator, ""),
         deleted |-> OrElse(pipeline.deleted, FALSE) ])

addPipeline(t, pipeline, clock) ==
  LET item == [ id            |-> pipeline.id,
                type          |-> PipelineType(pipeline.pipelineId, "latest"),
                prefix        |-> "PIPELINE",
                pipelineId    |-> pipeline.pipelineId,
                projectId     |-> pipeline.projectId,
                name          |-> pipeline.name,
                status        |-> pipeline.status,
                executionName |-> OrElse(pipeline.executionName, ""),
                executionArn  |-> OrElse(pipeline.executionArn, ""),
                version       |-> OrElse(pipeline.version, ToString(clock)),
                versionTag    |-> "latest",
                createAt      |-> OrElse(pipeline.createAt, clock),
                updateAt      |-> clock,
                operator      |-> OrElse(pipeline.operator, ""),
                deleted       |-> OrElse(pipeline.deleted, FALSE) ]
  IN Put(t, <<item.id, item.type>>, item)

\* Mutant of getPipeline: the deleted flag is not looked at.
getPipeline_IgnoresDeleted(t, projectId, pipelineId, version) ==
  LET key == PipelineKey(projectId, pipelineId, OrElse(version, "latest"))
  IN IF key \notin DOMAIN t THEN None ELSE Some(t[key])

getPipeline(t, projectId, pipelineId, version) ==
  LET skVersion == OrElse(version, "latest")
      key == PipelineKey(projectId, pipelineId, skVersion)
  IN IF key \notin DOMAIN t THEN None
     ELSE IF ~t[key].deleted THEN Some(t[key]) ELSE None

\* The Put part of the transaction: the backup of the current pipeline.
SnapshotItem(pipeline, curPipeline, clock) ==
  [ id            |-> curPipeline.id,
    type          |-> PipelineType(curPipeline.pipelineId, curPipeline.version),
    prefix        |-> curPipeline.prefix,
    pipelineId    |-> curPipeline.pipelineId,
    projectId     |-> curPipeline.projectId,
    name          |-> curPipeline.name,
    status        |-> curPipeline.status,
    executionName |-> curPipeline.executionName,
    executionArn  |-> curPipeline.executionArn,
    version       |-> curPipeline.version,
    versionTag    |-> curPipeline.version,
    createAt      |-> curPipeline.createAt,
    updateAt      |-> clock,
    operator      |-> pipeline.operator,
    deleted       |-> pipeline.deleted ]

\* Mutant of LatestUpdate: the handle is taken from the new pipeline object.
LatestUpdate_BodyHandle(stored, pipeline, curPipeline, clock) ==
  [ stored EXCEPT
      !.prefix        = pipeline.prefix,
      !.name          = pipeline.name,
      !.status        = pipeline.status,
      !.executionName = pipeline.executionName,
      !.executionArn  = pipeline.executionArn,
      !.version       = ToString(clock),
      !.versionTag    = "latest",
      !.updateAt      = clock,
      !.operator      = "" ]

\* The Update part of the transaction: the SET list applied to the stored
\* latest item; attributes outside the SET list keep their stored value.
LatestUpdate(stored, pipeline, curPipeline, clock) ==
  [ stored EXCEPT
      !.prefix        = pipeline.prefix,
      !.name          = pipeline.name,
      !.status        = pipeline.status,
      !.executionName = curPipeline.executionName,
      !.executionArn  = curPipeline.executionArn,
      !.version       = ToString(clock),
      !.versionTag    = "latest",
      !.updateAt      = clock,
      !.operator      = "" ]

\* Mutant of PutCondition: the Put carries no condition.
PutCondition_None(t, snapKey) == TRUE

\* ConditionExpression of the Put: attribute_not_exists(type)
PutCondition(t, snapKey) == snapKey \notin DOMAIN t

\* Mutant of UpdateCondition: the Update carries no version condition.
UpdateCondition_NoVersion(t, latestKey, pipeline) == latestKey \in DOMAIN t

\* ConditionExpression of the Update: version = :ConditionVersionValue
UpdateCondition(t, latestKey, pipeline) ==
  /\ latestKey \in DOMAIN t
  /\ t[latestKey].version = pipeline.version

\* Mutant of TransactWrite: two separate writes, each under its own condition.
TransactWrite_NotAtomic(t, putOk, updOk, snapKey, snap, latestKey, latest) ==
  LET t1 == IF putOk THEN Put(t, snapKey, snap) ELSE t
      t2 == IF updOk THEN Put(t1, latestKey, latest) ELSE t1
  IN [ok |-> putOk /\ updOk, table |-> t2]

\* TransactWriteItems applies both parts or none.
TransactWrite(t, putOk, updOk, snapKey, snap, latestKey, latest) ==
  IF putOk /\ updOk
  THEN [ok |-> TRUE, table |-> Put(Put(t, snapKey, snap), latestKey, latest)]
  ELSE [ok |-> FALSE, table |-> t]

updatePipeline(t, pipeline, curPipeline, clock) ==
  LET snap == SnapshotItem(pipeline, curPipeline, clock)
      snapKey == <<snap.id, snap.type>>
      latestKey == PipelineKey(pipeline.id, pipeline.pipelineId, "latest")
      putOk == PutCondition(t, snapKey)
      updOk == UpdateCondition(t, latestKey, pipeline)
      latest == IF latestKey \in DOMAIN t
                THEN LatestUpdate(t[latestKey], pipeline, curPipeline, clock)
                ELSE snap
  IN TransactWrite(t, putOk, updOk, snapKey, snap, latestKey, latest)

\* ClickStreamStore.updatePipelineStatus(pipeline, status): the write-back of
\* the reconciled status to the record the pipeline object was read from.
updatePipelineStatus(t, pipeline, status) ==
  LET key == <<pipeline.id, pipeline.type>>
  IN IF key \in DOMAIN t
     THEN Put(t, key, [t[key] EXCEPT !.status = Str(status)])
     ELSE t

\* begins_with(type, `PIPELINE#${pipelineId}`) for a type PIPELINE#<id>#<sk>,
\* over the identifiers of the model: the argument is the item's pipeline id
\* or IdPrefix, which every PipelineId(n) begins with; no PipelineId(n) is a
\* proper prefix of another (n < 10).
IdPrefix == "pl"
BeginsWith(id, pipelineId) == pipelineId = id \/ pipelineId = IdPrefix

\* Mutant of deletePipelineScan: the scan does not filter on the deleted flag.
deletePipelineScan_NoLiveFilter(t, projectId, pipelineId) ==
  { t[k] : k \in { k \in DOMAIN t : /\ k[1] = projectId
                                     /\ k[2][1] = "PIPELINE"
                                     /\ BeginsWith(k[2][2], pipelineId) } }

\* FilterExpression of deletePipeline's scan:
\* id = :p AND begins_with(type, PIPELINE#<pipelineId>) AND deleted = false
deletePipelineScan(t, projectId, pipelineId) ==
  { t[k] : k \in { k \in DOMAIN t : /\ k[1] = projectId
                                     /\ k[2][1] = "PIPELINE"
                                     /\ BeginsWith(k[2][2], pipelineId)
                                     /\ t[k].deleted = FALSE } }

\* `if (status) { status.status = DELETING }`: an object gets its member set.
\* The assignment to a member of a primitive string either does nothing
\* (sloppy mode) or throws a TypeError (strict mode), whichever the bundle
\* is built as; the empty string is falsy and skips the assignment.
DeletingStatus(status) ==
  IF status.obj THEN {Some(Obj("DELETING"))}
  ELSE IF status.status = "" THEN {Some(status)}
  ELSE {Some(status), None}

\* The UpdateCommand of the delete loop: SET deleted = true, status = :status
deletePipelineItem(t, projectId, item, status) ==
  LET key == <<projectId, item.type>>
  IN Put(t, key, [t[key] EXCEPT !.deleted = TRUE, !.status = status])

isEmpty(s) == s = ""

\* FilterExpression of listPipeline over the prefix index (prefix = PIPELINE)
listPipelineFilter(t, projectId, version) ==
  { t[k] : k \in { k \in DOMAIN t :
                     /\ t[k].prefix = "PIPELINE"
                     /\ t[k].deleted = FALSE
                     /\ (~isEmpty(version) => t[k].versionTag = version)
                     /\ (~isEmpty(projectId) => t[k].id = projectId) } }

\* The orders the index can return a set of items in: sorted by the
\* insertion-time attribute, ascending when ScanIndexForward, ties in any order.
QueryOrders(S, asc) ==
  LET n == Cardinality(S)
  IN { s \in [1..n -> S] :
         /\ \A i, j \in 1..n : i # j => s[i] # s[j]
         /\ \A i, j \in 1..n : i < j =>
              IF asc THEN s[i].createAt <= s[j].createAt
                     ELSE s[i].createAt >= s[j].createAt }

\* Any order: a table scan promises none.
ScanOrders(S) ==
  LET n == Cardinality(S)
  IN { s \in [1..n -> S] : \A i, j \in 1..n : i # j => s[i] # s[j] }

\* Mutant of Paginate: the page number is not clamped to the last page.
Paginate_NoClamp(records, pagination, pageSize, pageNumber) ==
  LET totalCount == Len(records)
  IN [ totalCount |-> totalCount,
       items |-> IF pagination
                 THEN Slice(records, pageSize * (pageNumber - 1),
                            Min(pageSize * pageNumber, totalCount))
                 ELSE records ]

\* Mutant of Paginate: a page starts one item before its place.
Paginate_Overlap(records, pagination, pageSize, pageNumber) ==
  LET totalCount == Len(records)
      pn == Min(CeilDiv(totalCount, pageSize), pageNumber)
      startIndex == IF pn > 1 THEN pageSize * (pn - 1) - 1 ELSE 0
      endIndex == Min(pageSize * pn, totalCount)
  IN [ totalCount |-> totalCount,
       items |-> IF pagination
                 THEN IF totalCount # 0 THEN Slice(records, startIndex, endIndex)
                      ELSE <<>>
                 ELSE records ]

\* The page slicing shared by listProjects, listApplication, listPipeline
\* and listPlugin, for pageSize >= 1 and pageNumber >= 1.
Paginate(records, pagination, pageSize, pageNumber) ==
  LET totalCount == Len(records)
      pn == Min(CeilDiv(totalCount, pageSize), pageNumber)
      startIndex == pageSize * (pn - 1)
      endIndex == Min(pageSize * pn, totalCount)
  IN [ totalCount |-> totalCount,
       items |-> IF pagination
                 THEN IF totalCount # 0 THEN Slice(records, startIndex, endIndex)
                      ELSE <<>>
                 ELSE records ]

----------------------------------------------------------------------------
(* StackManager: the workflow engine *)

getExecutionStatus(ex, arn) == IF arn \in DOMAIN ex THEN Some(ex[arn]) ELSE None

execute(ex, executionName) == Put(ex, ExecutionArn(executionName), "RUNNING")

----------------------------------------------------------------------------
(* PipelineServ: request frames *)

Reqs == 1..MaxReqs

IdleFrame ==
  [ op |-> "none", pc |-> "idle", arg |-> None, body |-> None, cur |-> None,
    items |-> <<>>, total |-> 0, idx |-> 0, curStatus |-> "",
    seen |-> <<>>, writes |-> 0, resp |-> None ]

\* res.status(code).json(new ApiSuccess(data)) / .send(new ApiFail(message))
ApiSuccess(code, data) == Some([code |-> code, success |-> TRUE, data |-> data])
ApiFail(code, message) == Some([code |-> code, success |-> FALSE, data |-> message])
\* next(error): the error handed to the error-handling middleware
NextError(error) == Some([code |-> 500, success |-> FALSE, data |-> error])

\* Requests are issued in the order of their ids.
CanStart(r) ==
  /\ reqs[r].pc = "idle"
  /\ r > 1 => reqs[r - 1].pc # "idle"

Frame(r, f) == reqs' = [reqs EXCEPT ![r] = f]

\* Request bodies and query strings the clients send.
AddBodies ==
  { [ projectId |-> "p1", name |-> "a", status |-> Str("RUNNING"),
      version |-> None, createAt |-> None, operator |-> None, deleted |-> None ],
    [ projectId |-> "p1", name |-> "a", status |-> Obj("CREATING"),
      version |-> Some("0"), createAt |-> Some(0), operator |-> Some("op"),
      deleted |-> Some(FALSE) ] }

UpdateBodies ==
  { [ projectId |-> "p1", pipelineId |-> plid, prefix |-> "PIPELINE",
      name |-> "b", status |-> v[1], version |-> ver,
      executionName |-> "main-x", executionArn |-> "arn:main-x",
      operator |-> v[2], deleted |-> v[3] ] :
    plid \in PipelineIds, ver \in VersionTokens,
    v \in { <<Str("RUNNING"), "", FALSE>>, <<Obj("UPDATING"), "op", TRUE>> } }

ListQueries ==
  { [ pid |-> "p1", version |-> "", order |-> "asc", pageSize |-> 2, pageNumber |-> 1 ],
    [ pid |-> "", version |-> "latest", order |-> "desc", pageSize |-> 1, pageNumber |-> 2 ] }

----------------------------------------------------------------------------
(* PipelineServ.add *)

AddStart(r) ==
  /\ CanStart(r)
  /\ uuid < MaxUuid
  /\ \E b \in AddBodies :
       Frame(r, [ IdleFrame EXCEPT
         !.op = "add", !.pc = "add_generate",
         !.body = Some([ id |-> b.projectId, projectId |-> b.projectId,
                         pipelineId |-> PipelineId(uuid + 1),
                         name |-> b.name, status |-> b.status,
                         version |-> b.version, createAt |-> b.createAt,
                         operator |-> b.operator, deleted |-> b.deleted,
                         executionName |-> Some(ExecutionName(uuid + 1)),
                         executionArn |-> None ]) ])
  /\ uuid' = uuid + 1
  /\ UNCHANGED <<table, dictionary, executions, now, out>>

\* stackManager.generateWorkflow(pipeline): returns the definition or throws
AddGenerateWorkflow(r) ==
  /\ reqs[r].pc = "add_generate"
  /\ \E ok \in BOOLEAN :
       Frame(r, IF ok THEN [reqs[r] EXCEPT !.pc = "add_execute"]
                ELSE [reqs[r] EXCEPT !.pc = "done",
                                     !.resp = NextError("generateWorkflow")])
  /\ UNCHANGED <<table, dictionary, executions, now, uuid, out>>

\* stackManager.execute(workflow, executionName): starts the execution and
\* returns its arn (an optional member of the engine's reply), or throws
AddExecute(r) ==
  /\ reqs[r].pc = "add_execute"
  /\ LET pipeline == reqs[r].body[1]
         name == pipeline.executionName[1]
     IN \/ /\ executions' = execute(executions, name)
           /\ \E arn \in {Some(ExecutionArn(name)), None} :
                Frame(r, [reqs[r] EXCEPT
                  !.pc = "add_save",
                  !.body = Some([pipeline EXCEPT !.executionArn = arn])])
        \/ /\ UNCHANGED executions
           /\ Frame(r, [reqs[r] EXCEPT !.pc = "done", !.resp = NextError("execute")])
  /\ UNCHANGED <<table, dictionary, now, uuid, out>>

AddSave(r) ==
  /\ reqs[r].pc = "add_save"
  /\ table' = addPipeline(table, reqs[r].body[1], now)
  /\ Frame(r, [reqs[r] EXCEPT !.pc = "done", !.writes = @ + 1,
                              !.resp = ApiSuccess(201, reqs[r].body[1].pipelineId)])
  /\ UNCHANGED <<dictionary, executions, now, uuid, out>>

----------------------------------------------------------------------------
(* PipelineServ.update *)

UpdateStart(r) ==
  /\ CanStart(r)
  /\ \E b \in UpdateBodies :
       Frame(r, [ IdleFrame EXCEPT
         !.op = "update", !.pc = "update_get",
         !.body = Some([ id |-> b.projectId ] @@ b) ])
  /\ UNCHANGED <<table, dictionary, executions, now, uuid, out>>

UpdateGet(r) ==
  /\ reqs[r].pc = "update_get"
  /\ LET pipeline == reqs[r].body[1]
         curPipeline == getPipeline(table, pipeline.id, pipeline.pipelineId, None)
     IN Frame(r, IF curPipeline = None
                 THEN [reqs[r] EXCEPT
                         !.pc = "done",
                         !.resp = ApiFail(404, "Pipeline resource does not exist.")]
                 ELSE [reqs[r] EXCEPT !.pc = "update_write", !.cur = curPipeline])
  /\ UNCHANGED <<table, dictionary, executions, now, uuid, out>>

\* Mutant of UpdateWrite: the update also starts an execution of the workflow.
UpdateWrite_Executes(r) ==
  /\ reqs[r].pc = "update_write"
  /\ LET res == updatePipeline(table, reqs[r].body[1], reqs[r].cur[1], now)
     IN /\ table' = res.table
        /\ executions' = execute(executions, reqs[r].body[1].executionName)
        /\ Frame(r, IF res.ok
                    THEN [reqs[r] EXCEPT !.pc = "done", !.writes = @ + 1,
                                         !.resp = ApiSuccess(201, "Pipeline updated.")]
                    ELSE [reqs[r] EXCEPT !.pc = "done",
                                         !.resp = NextError("TransactionCanceled")])
  /\ UNCHANGED <<dictionary, now, uuid, out>>

UpdateWrite(r) ==
  /\ reqs[r].pc = "update_write"
  /\ LET res == updatePipeline(table, reqs[r].body[1], reqs[r].cur[1], now)
     IN /\ table' = res.table
        /\ Frame(r, IF res.ok
                    THEN [reqs[r] EXCEPT !.pc = "done", !.writes = @ + 1,
                                         !.resp = ApiSuccess(201, "Pipeline updated.")]
                    ELSE [reqs[r] EXCEPT !.pc = "done",
                                         !.resp = NextError("TransactionCanceled")])
  /\ UNCHANGED <<dictionary, executions, now, uuid, out>>

----------------------------------------------------------------------------
(* PipelineServ.details *)

\* `await stackManager.getExecutionStatus(arn) ?? ExecutionStatus.FAILED`
CurStatus(ex, arn) == OrElse(getExecutionStatus(ex, arn), "FAILED")

\* Mutant of StatusDiffers: the status is written back on every read.
StatusDiffers_Always(status, curStatus) == TRUE

\* `pipeline.status !== curStatus`
StatusDiffers(status, curStatus) == status # Str(curStatus)

\* `if (pipeline.executionArn)`
HasHandle(pipeline) == pipeline.executionArn # ""

Seen(pipeline, curStatus) ==
  [ key |-> <<pipeline.id, pipeline.type>>, arn |-> pipeline.executionArn,
    stored |-> pipeline.status, engine |-> curStatus ]

DetailsStart(r) ==
  /\ CanStart(r)
  /\ \E pid \in Projects, id \in PipelineIds :
       Frame(r, [ IdleFrame EXCEPT !.op = "details", !.pc = "details_get",
                                   !.arg = Some([pid |-> pid, id |-> id]) ])
  /\ UNCHANGED <<table, dictionary, executions, now, uuid, out>>

DetailsGet(r) ==
  /\ reqs[r].pc = "details_get"
  /\ LET a == reqs[r].arg[1]
         result == getPipeline(table, a.pid, a.id, None)
     IN Frame(r,
          IF result = None
          THEN [reqs[r] EXCEPT !.pc = "done",
                               !.resp = ApiFail(404, "Pipeline not found")]
          ELSE IF HasHandle(result[1])
          THEN [reqs[r] EXCEPT !.pc = "details_status", !.cur = result]
          ELSE [reqs[r] EXCEPT !.pc = "done", !.cur = result,
                               !.resp = ApiSuccess(200, result[1])])
  /\ UNCHANGED <<table, dictionary, executions, now, uuid, out>>

DetailsStatus(r) ==
  /\ reqs[r].pc = "details_status"
  /\ LET result == reqs[r].cur[1]
         curStatus == CurStatus(executions, result.executionArn)
         f == [reqs[r] EXCEPT !.curStatus = curStatus,
                              !.seen = Append(@, Seen(result, curStatus))]
     IN Frame(r,
          IF StatusDiffers(result.status, curStatus)
          THEN [f EXCEPT !.pc = "details_write",
                         !.cur = Some([result EXCEPT !.status = Str(curStatus)])]
          ELSE [f EXCEPT !.pc = "done", !.resp = ApiSuccess(200, result)])
  /\ UNCHANGED <<table, dictionary, executions, now, uuid, out>>

DetailsWrite(r) ==
  /\ reqs[r].pc = "details_write"
  /\ table' = updatePipelineStatus(table, reqs[r].cur[1], reqs[r].curStatus)
  /\ Frame(r, [reqs[r] EXCEPT !.pc = "done", !.writes = @ + 1,
                              !.resp = ApiSuccess(200, reqs[r].cur[1])])
  /\ UNCHANGED <<dictionary, executions, now, uuid, out>>

----------------------------------------------------------------------------
(* PipelineServ.list *)

\* The for loop runs on, without a remote call, over the items that have no
\* execution handle: the next item the loop stops at, or the response.
ListAdvance(f, from) ==
  LET rest == { j \in from..Len(f.items) : HasHandle(f.items[j]) }
  IN IF rest = {}
     THEN [f EXCEPT !.pc = "done", !.idx = Len(f.items) + 1,
                    !.resp = ApiSuccess(200, [totalCount |-> f.total, items |-> f.items])]
     ELSE [f EXCEPT !.pc = "list_status",
                    !.idx = CHOOSE j \in rest : \A k \in rest : j <= k]

ListStart(r) ==
  /\ CanStart(r)
  /\ \E q \in ListQueries :
       Frame(r, [ IdleFrame EXCEPT !.op = "list", !.pc = "list_query", !.arg = Some(q) ])
  /\ UNCHANGED <<table, dictionary, executions, now, uuid, out>>

ListQuery(r) ==
  /\ reqs[r].pc = "list_query"
  /\ LET q == reqs[r].arg[1]
     IN \E records \in QueryOrders(listPipelineFilter(table, q.pid, q.version),
                                   q.order = "asc") :
          LET result == Paginate(records, TRUE, q.pageSize, q.pageNumber)
          IN Frame(r, ListAdvance([reqs[r] EXCEPT !.items = result.items,
                                                  !.total = result.totalCount], 1))
  /\ UNCHANGED <<table, dictionary, executions, now, uuid, out>>

ListStatus(r) ==
  /\ reqs[r].pc = "list_status"
  /\ LET i == reqs[r].idx
         pipeline == reqs[r].items[i]
         curStatus == CurStatus(executions, pipeline.executionArn)
         f == [reqs[r] EXCEPT !.curStatus = curStatus,
                              !.seen = Append(@, Seen(pipeline, curStatus))]
     IN Frame(r,
          IF StatusDiffers(pipeline.status, curStatus)
          THEN [f EXCEPT !.pc = "list_write", !.items[i].status = Str(curStatus)]
          ELSE ListAdvance(f, i + 1))
  /\ UNCHANGED <<table, dictionary, executions, now, uuid, out>>

ListWrite(r) ==
  /\ reqs[r].pc = "list_write"
  /\ table' = updatePipelineStatus(table, reqs[r].items[reqs[r].idx], reqs[r].curStatus)
  /\ Frame(r, ListAdvance([reqs[r] EXCEPT !.writes = @ + 1], reqs[r].idx + 1))
  /\ UNCHANGED <<dictionary, executions, now, uuid, out>>

----------------------------------------------------------------------------
(* PipelineServ.delete *)

DeleteStart(r) ==
  /\ CanStart(r)
  /\ \E pid \in Projects, id \in PipelineIds :
       Frame(r, [ IdleFrame EXCEPT !.op = "delete", !.pc = "delete_scan",
                                   !.arg = Some([pid |-> pid, id |-> id]) ])
  /\ UNCHANGED <<table, dictionary, executions, now, uuid, out>>

DeleteAdvance(f, from) ==
  IF from > Len(f.items)
  THEN [f EXCEPT !.pc = "done", !.idx = from,
                 !.resp = ApiSuccess(200, "Pipeline deleted.")]
  ELSE [f EXCEPT !.pc = "delete_item", !.idx = from]

DeleteScan(r) ==
  /\ reqs[r].pc = "delete_scan"
  /\ LET a == reqs[r].arg[1]
     IN \E pipelines \in ScanOrders(deletePipelineScan(table, a.pid, a.id)) :
          Frame(r, DeleteAdvance([reqs[r] EXCEPT !.items = pipelines], 1))
  /\ UNCHANGED <<table, dictionary, executions, now, uuid, out>>

DeleteItem(r) ==
  /\ reqs[r].pc = "delete_item"
  /\ LET a == reqs[r].arg[1]
         item == reqs[r].items[reqs[r].idx]
     IN \E status \in DeletingStatus(item.status) :
          IF status = None
          THEN /\ UNCHANGED table
               /\ Frame(r, [reqs[r] EXCEPT !.pc = "done", !.resp = NextError("TypeError")])
          ELSE /\ table' = deletePipelineItem(table, a.pid, item, status[1])
               /\ Frame(r, DeleteAdvance([reqs[r] EXCEPT !.writes = @ + 1],
                                         reqs[r].idx + 1))
  /\ UNCHANGED <<dictionary, executions, now, uuid, out>>

----------------------------------------------------------------------------
(* The environment: the clock and the workflow engine *)

Tick ==
  /\ now < MaxTime
  /\ now' = now + 1
  /\ UNCHANGED <<table, dictionary, executions, uuid, reqs, out>>

\* A running execution ends; the engine forgets an ended execution.
EngineStep ==
  /\ \E arn \in DOMAIN executions :
       \/ /\ executions[arn] = "RUNNING"
          /\ \E s \in {"SUCCEEDED", "FAILED"} : executions' = Put(executions, arn, s)
       \/ /\ executions[arn] # "RUNNING"
          /\ executions' = [a \in DOMAIN executions \ {arn} |-> executions[a]]
  /\ UNCHANGED <<table, dictionary, now, uuid, reqs, out>>

----------------------------------------------------------------------------
(* The pipeline service over the store and the engine *)

Init ==
  /\ table = EmptyTable
  /\ dictionary = EmptyTable
  /\ executions = EmptyTable
  /\ now = 0
  /\ uuid = 0
  /\ reqs = [r \in Reqs |-> IdleFrame]
  /\ out = None

Next ==
  \/ \E r \in Reqs : AddStart(r)
  \/ \E r \in Reqs : AddGenerateWorkflow(r)
  \/ \E r \in Reqs : AddExecute(r)
  \/ \E r \in Reqs : AddSave(r)
  \/ \E r \in Reqs : UpdateStart(r)
  \/ \E r \in Reqs : UpdateGet(r)
  \/ \E r \in Reqs : UpdateWrite(r)
  \/ \E r \in Reqs : DetailsStart(r)
  \/ \E r \in Reqs : DetailsGet(r)
  \/ \E r \in Reqs : DetailsStatus(r)
  \/ \E r \in Reqs : DetailsWrite(r)
  \/ \E r \in Reqs : ListStart(r)
  \/ \E r \in Reqs : ListQuery(r)
  \/ \E r \in Reqs : ListStatus(r)
  \/ \E r \in Reqs : ListWrite(r)
  \/ \E r \in Reqs : DeleteStart(r)
  \/ \E r \in Reqs : DeleteScan(r)
  \/ \E r \in Reqs : DeleteItem(r)
  \/ Tick
  \/ EngineStep

Spec == Init /\ [][Next]_vars

----------------------------------------------------------------------------
(* Claims about updatePipeline and PipelineServ.update *)

IsUpdate(r) == reqs[r].op = "update"
UpdNew(r) == reqs[r].body[1]
UpdCur(r) == reqs[r].cur[1]
UpdLatestKey(r) == PipelineKey(UpdNew(r).id, UpdNew(r).pipelineId, "latest")
UpdSnapKey(r) == PipelineKey(UpdCur(r).id, UpdCur(r).pipelineId, UpdCur(r).version)

\* The step in which request r's updatePipeline call returns.
UpdateReturns(r) == reqs[r].pc = "update_write" /\ reqs'[r].pc = "done"
UpdateSucceeds(r) == UpdateReturns(r) /\ reqs'[r].resp[1].success
Conflict(f) == f.pc = "done" /\ f.resp = NextError("TransactionCanceled")

\* The attributes that make up a pipeline's state (the item's own sort key,
\* its versionTag and its write stamp aside).
PipelineState(item) ==
  [ id |-> item.id, pipelineId |-> item.pipelineId, projectId |-> item.projectId,
    prefix |-> item.prefix, name |-> item.name, status |-> item.status,
    executionName |-> item.executionName, executionArn |-> item.executionArn,
    version |-> item.version, createAt |-> item.createAt,
    operator |-> item.operator, deleted |-> item.deleted ]

\* The configuration a caller submits in the new pipeline object.
PipelineConfig(item) ==
  [ id |-> item.id, pipelineId |-> item.pipelineId, projectId |-> item.projectId,
    prefix |-> item.prefix, name |-> item.name, status |-> item.status ]

\* C1: after updatePipeline(new, current) succeeds, a snapshot keyed by
\* current's version exists whose attributes equal current's pre-update state,
\* and the latest record equals new with its version advanced to a new value.
C1_SnapshotEqualsCurrent ==
  [][ \A r \in Reqs : UpdateSucceeds(r) =>
        /\ UpdSnapKey(r) \in DOMAIN table'
        /\ PipelineState(table'[UpdSnapKey(r)]) = PipelineState(UpdCur(r))
        /\ PipelineConfig(table'[UpdLatestKey(r)]) = PipelineConfig(UpdNew(r))
        /\ table'[UpdLatestKey(r)].version # UpdCur(r).version ]_vars

\* C2: updatePipeline is rejected with a conflict, committing nothing, whenever
\* the version stored in the latest record differs from the version the caller
\* last read: the version carried by the pipeline object it submits, and the
\* version of the record the service loaded for it.
C2_ConflictOnStaleVersion ==
  [][ \A r \in Reqs : UpdateReturns(r) =>
        ( ( \/ UpdLatestKey(r) \notin DOMAIN table
            \/ table[UpdLatestKey(r)].version # UpdNew(r).version
            \/ table[UpdLatestKey(r)].version # UpdCur(r).version )
          => /\ Conflict(reqs'[r])
             /\ table' = table ) ]_vars

\* A rejected update whose snapshot key was free: the version check rejected it.
C2_Witness ==
  \E r \in Reqs :
    /\ IsUpdate(r) /\ Conflict(reqs[r])
    /\ UpdSnapKey(r) \notin DOMAIN table
    /\ table[UpdLatestKey(r)].version # UpdNew(r).version

\* C3: the update is all-or-nothing: when the snapshot key already exists or
\* the stored latest version does not match, the call fails and the table is
\* left exactly as it was (no snapshot inserted, latest not modified).
C3_AllOrNothing ==
  [][ \A r \in Reqs : UpdateReturns(r) =>
        ( ( \/ UpdSnapKey(r) \in DOMAIN table
            \/ UpdLatestKey(r) \notin DOMAIN table
            \/ table[UpdLatestKey(r)].version # UpdNew(r).version )
          <=> /\ ~reqs'[r].resp[1].success
              /\ table' = table ) ]_vars

\* A rejected update whose version matched: the snapshot guard alone failed,
\* and the latest record still is what the earlier writer left.
C3_Witness ==
  \E r \in Reqs :
    /\ IsUpdate(r) /\ Conflict(reqs[r])
    /\ UpdSnapKey(r) \in DOMAIN table
    /\ table[UpdLatestKey(r)].version = UpdNew(r).version
    /\ table[UpdLatestKey(r)].name = UpdCur(r).name

\* C4: of two update requests on the same pipeline built from the same read
\* version, at most one commits.
C4_NoLostUpdate ==
  \A r1, r2 \in Reqs :
    ( /\ r1 # r2
      /\ IsUpdate(r1) /\ IsUpdate(r2)
      /\ reqs[r1].pc = "done" /\ reqs[r2].pc = "done"
      /\ UpdNew(r1).pipelineId = UpdNew(r2).pipelineId
      /\ UpdNew(r1).version = UpdNew(r2).version )
    => ~(reqs[r1].resp[1].success /\ reqs[r2].resp[1].success)

\* Two such requests have finished: one committed, the other met a conflict.
C4_Witness ==
  \E r1, r2 \in Reqs :
    /\ r1 # r2 /\ IsUpdate(r1) /\ IsUpdate(r2)
    /\ UpdNew(r1).version = UpdNew(r2).version
    /\ reqs[r1].pc = "done" /\ reqs[r1].resp[1].success
    /\ Conflict(reqs[r2])

\* C10: PipelineServ.update answers 404 and writes nothing when the pipeline
\* has no live latest record (absent or soft-deleted); it calls the store's
\* updatePipeline only with a live latest record it has loaded.
C10_UpdateRequiresLiveLatest ==
  [][ \A r \in Reqs :
        /\ (reqs[r].pc = "update_get" /\ reqs'[r].pc # "update_get") =>
             IF UpdLatestKey(r) \in DOMAIN table /\ ~table[UpdLatestKey(r)].deleted
             THEN /\ reqs'[r].pc = "update_write"
                  /\ reqs'[r].cur = Some(table[UpdLatestKey(r)])
             ELSE /\ reqs'[r].pc = "done"
                  /\ reqs'[r].resp[1].code = 404
                  /\ reqs'[r].writes = 0
                  /\ table' = table
        /\ (IsUpdate(r) /\ reqs'[r].writes > reqs[r].writes) =>
             reqs[r].pc = "update_write" ]_vars

\* An update of a soft-deleted pipeline was answered 404 without a write.
C10_Witness ==
  \E r \in Reqs :
    /\ IsUpdate(r) /\ reqs[r].pc = "done"
    /\ reqs[r].resp[1].code = 404 /\ reqs[r].writes = 0
    /\ UpdLatestKey(r) \in DOMAIN table
    /\ table[UpdLatestKey(r)].deleted

----------------------------------------------------------------------------
(* Claims about PipelineServ.list, PipelineServ.details and PipelineServ.add *)

IsRead(r) == reqs[r].op \in {"list", "details"}
Answered(r) == reqs[r].pc = "done" /\ reqs[r].resp[1].success

\* The pipelines a list or details response carries.
Returned(r) ==
  IF reqs[r].op = "details" THEN <<reqs[r].resp[1].data>>
  ELSE reqs[r].resp[1].data.items

\* The engine queries of request r that found the stored status out of date.
Stale(r) ==
  { j \in 1..Len(reqs[r].seen) :
      reqs[r].seen[j].stored # Str(reqs[r].seen[j].engine) }

\* The step in which request r's status write-back returns.
StatusWritten(r) ==
  /\ reqs[r].pc \in {"details_write", "list_write"}
  /\ reqs'[r].pc # reqs[r].pc \/ reqs'[r].idx # reqs[r].idx

\* C8: lazy reconciliation. A pipeline returned by details or list that has an
\* execution handle had the engine queried for that handle during the request
\* and is returned with the engine's status (FAILED when the engine reports
\* none); the request wrote to the store once for each query that found the
\* stored status different, and the write left the stored status equal to the
\* engine's; it wrote nothing when they were equal, and pipelines without a
\* handle caused neither a query nor a write.
C8_LazyReconciliation ==
  /\ [] ( \A r \in Reqs : (IsRead(r) /\ Answered(r)) =>
            /\ \A i \in 1..Len(Returned(r)) :
                 IF HasHandle(Returned(r)[i])
                 THEN \E j \in 1..Len(reqs[r].seen) :
                        /\ reqs[r].seen[j].key = <<Returned(r)[i].id, Returned(r)[i].type>>
                        /\ reqs[r].seen[j].arn = Returned(r)[i].executionArn
                        /\ Returned(r)[i].status = Str(reqs[r].seen[j].engine)
                 ELSE \A j \in 1..Len(reqs[r].seen) :
                        reqs[r].seen[j].key # <<Returned(r)[i].id, Returned(r)[i].type>>
            /\ reqs[r].writes = Cardinality(Stale(r)) )
  /\ [][ \A r \in Reqs : StatusWritten(r) =>
           LET q == reqs[r].seen[Len(reqs[r].seen)]
           IN /\ q.stored # Str(q.engine)
              /\ table'[q.key].status = Str(q.engine)
              /\ reqs'[r].writes = reqs[r].writes + 1 ]_vars

\* A list answered after it found one pipeline out of date and wrote it back,
\* and one pipeline up to date; the store holds the engine's status.
C8_Witness ==
  \E r \in Reqs :
    /\ reqs[r].op = "list" /\ Answered(r)
    /\ Len(reqs[r].seen) = 2
    /\ Cardinality(Stale(r)) = 1
    /\ \E j \in Stale(r) : table[reqs[r].seen[j].key].status = Str(reqs[r].seen[j].engine)

IsAdd(r) == reqs[r].op = "add"
AddLatestKey(r) ==
  PipelineKey(reqs[r].body[1].id, reqs[r].body[1].pipelineId, "latest")
AddArn(r) == ExecutionArn(reqs[r].body[1].executionName[1])

\* C9: PipelineServ.add generates the workflow, then executes it, then saves:
\* no execution is started before generateWorkflow has returned, no pipeline
\* record exists before execute has returned, none is persisted when
\* generateWorkflow or execute fails, and the persisted latest record carries
\* the execution handle execute returned.
C9_AddOrder ==
  \A r \in Reqs : IsAdd(r) =>
    /\ reqs[r].pc = "add_generate" => AddArn(r) \notin DOMAIN executions
    /\ reqs[r].pc \in {"add_generate", "add_execute"} =>
         reqs[r].body[1].executionArn = None
    /\ reqs[r].pc \in {"add_generate", "add_execute", "add_save"} =>
         AddLatestKey(r) \notin DOMAIN table
    /\ (reqs[r].pc = "done" /\ ~reqs[r].resp[1].success) =>
         AddLatestKey(r) \notin DOMAIN table
    /\ (reqs[r].pc = "done" /\ reqs[r].resp[1].success) =>
         /\ AddLatestKey(r) \in DOMAIN table
         /\ table[AddLatestKey(r)].executionArn =
              OrElse(reqs[r].body[1].executionArn, "")
         /\ table[AddLatestKey(r)].executionName = reqs[r].body[1].executionName[1]

\* An add has finished and its record carries the handle of the execution.
C9_Witness ==
  \E r \in Reqs :
    /\ IsAdd(r) /\ Answered(r)
    /\ table[AddLatestKey(r)].executionArn = AddArn(r)
    /\ AddArn(r) \in DOMAIN executions

----------------------------------------------------------------------------
(* DynamoDbStore: projects and applications (reads) *)

\* `!item.deleted`: an item without the attribute reads as not deleted
Deleted(item) == "deleted" \in DOMAIN item /\ item.deleted = TRUE
\* FilterExpression `deleted = :d` with :d = false
FilterNotDeleted(item) == "deleted" \in DOMAIN item /\ item.deleted = FALSE

ProjectKey(id) == <<id, <<"METADATA", id>>>>
ApplicationKey(projectId, appId) == <<projectId, <<"APP", appId>>>>
PluginKey(pluginId) == <<pluginId, <<"PLUGIN", pluginId>>>>

GetLive(t, key) ==
  IF key \notin DOMAIN t THEN None
  ELSE IF ~Deleted(t[key]) THEN Some(t[key]) ELSE None

\* The Item of createProject; the contact and deployment attributes, which no
\* operation of the store reads, are left out.
createProject(t, project, clock) ==
  Put(t, ProjectKey(project.id),
      [ id |-> project.id, type |-> <<"METADATA", project.id>>, prefix |-> "METADATA",
        name |-> project.name, description |-> project.description,
        status |-> "ACTIVED", createAt |-> clock, updateAt |-> clock,
        operator |-> "", deleted |-> FALSE ])

getProject(t, id) == GetLive(t, ProjectKey(id))

getApplication(t, projectId, appId) == GetLive(t, ApplicationKey(projectId, appId))

\* The records a list query over the prefix index filters out of the table;
\* an item without the prefix attribute is not in the index.
listProjectsFilter(t) ==
  { t[k] : k \in { k \in DOMAIN t :
                     /\ "prefix" \in DOMAIN t[k] /\ t[k].prefix = "METADATA"
                     /\ FilterNotDeleted(t[k]) } }

listApplicationFilter(t, projectId) ==
  { t[k] : k \in { k \in DOMAIN t :
                     /\ "prefix" \in DOMAIN t[k] /\ t[k].prefix = "APP"
                     /\ FilterNotDeleted(t[k])
                     /\ t[k].projectId = projectId } }

----------------------------------------------------------------------------
(* DynamoDbStore: plugins and the built-in plugin dictionary *)

MaxBind == 1

PluginIds == {"plg1", "plg2"}
BuildInIds == {"BUILDIN-1", "BUILDIN-2"}
PluginTypes == {"Transform", "Enrich"}

\* pluginId.startsWith('BUILDIN'), over the ids of the model
StartsWithBUILDIN(pluginId) == pluginId \in BuildInIds \cup {"BUILDIN-9"}

\* Unary plus on the decimal strings the dictionary holds
ToNumber(str) == CHOOSE n \in 0..(MaxTime + MaxBind + 1) : ToString(n) = str

\* The conversion both getPlugin and listPlugin apply to a dictionary entry.
ParseBuildIn(p) ==
  [ p EXCEPT !.createAt = ToNumber(p.createAt),
             !.updateAt = ToNumber(p.updateAt),
             !.bindCount = ToNumber(p.bindCount),
             !.builtIn = (p.builtIn = "true"),
             !.deleted = (p.deleted = "true") ]

ParseBuildIns(data) == [i \in 1..Len(data) |-> ParseBuildIn(data[i])]

getDictionary(dic, name) == IF name \in DOMAIN dic THEN Some(dic[name]) ELSE None

addPlugin(t, plugin, clock) ==
  Put(t, PluginKey(plugin.id),
      [ id |-> plugin.id, type |-> <<"PLUGIN", plugin.id>>, prefix |-> "PLUGIN",
        description |-> plugin.description, status |-> "Disabled",
        pluginType |-> plugin.pluginType, builtIn |-> FALSE, bindCount |-> 0,
        createAt |-> clock, updateAt |-> clock, operator |-> "", deleted |-> FALSE ])

getPlugin(t, dic, pluginId) ==
  LET d == getDictionary(dic, "BuildInPlugins")
  IN IF StartsWithBUILDIN(pluginId) /\ d # None
     THEN LET buildInPlugins ==
                SelectSeq(ParseBuildIns(d[1].data), LAMBDA p : p.id = pluginId)
          IN IF buildInPlugins # <<>> THEN Some(buildInPlugins[1]) ELSE None
     ELSE GetLive(t, PluginKey(pluginId))

\* Mutant of BindCountCondition: the write carries no bindCount condition.
BindCountCondition_Exists(t, key) == key \in DOMAIN t

\* ConditionExpression of updatePlugin and deletePlugin: bindCount = 0
BindCountCondition(t, key) == key \in DOMAIN t /\ t[key].bindCount = 0

\* SET updateAt, and each member of the plugin object that is truthy
updatePlugin(t, plugin, clock) ==
  LET key == PluginKey(plugin.id)
  IN IF BindCountCondition(t, key)
     THEN [ ok |-> TRUE,
            table |-> Put(t, key,
              [ t[key] EXCEPT
                  !.updateAt = clock,
                  !.description = IF plugin.description # ""
                                  THEN plugin.description ELSE @ ]) ]
     ELSE [ok |-> FALSE, table |-> t]

deletePlugin(t, pluginId) ==
  LET key == PluginKey(pluginId)
  IN IF BindCountCondition(t, key)
     THEN [ok |-> TRUE, table |-> Put(t, key, [t[key] EXCEPT !.deleted = TRUE])]
     ELSE [ok |-> FALSE, table |-> t]

\* One UpdateCommand of the bindPlugins loop: SET bindCount = bindCount + :b.
\* The expression cannot be evaluated on an item that is not there.
bindPlugin(t, pluginId, count, clock) ==
  LET key == PluginKey(pluginId)
  IN IF key \in DOMAIN t
     THEN [ ok |-> TRUE,
            table |-> Put(t, key, [ t[key] EXCEPT !.bindCount = @ + count,
                                                  !.updateAt = clock ]) ]
     ELSE [ok |-> FALSE, table |-> t]

listPluginFilter(t, pluginType) ==
  { t[k] : k \in { k \in DOMAIN t :
                     /\ t[k].prefix = "PLUGIN" /\ FilterNotDeleted(t[k])
                     /\ (~isEmpty(pluginType) => t[k].pluginType = pluginType) } }

listPluginBuildIns(dic, pluginType) ==
  LET d == getDictionary(dic, "BuildInPlugins")
  IN IF d = None THEN <<>>
     ELSE IF ~isEmpty(pluginType)
          THEN SelectSeq(ParseBuildIns(d[1].data), LAMBDA p : p.pluginType = pluginType)
          ELSE ParseBuildIns(d[1].data)

\* Mutant of listPlugin: the stored records come before the built-in ones.
listPlugin_StoredFirst(dic, records, pluginType, pagination, pageSize, pageNumber) ==
  Paginate(records \o listPluginBuildIns(dic, pluginType),
           pagination, pageSize, pageNumber)

\* listPlugin, given the order the index returned the stored records in
listPlugin(dic, records, pluginType, pagination, pageSize, pageNumber) ==
  Paginate(listPluginBuildIns(dic, pluginType) \o records,
           pagination, pageSize, pageNumber)

----------------------------------------------------------------------------
(* The plugin store called directly, one remote call per step *)

\* The built-in catalogs the dictionary table may have been loaded with.
BuildIn(id, pluginType, deleted) ==
  [ id |-> id, prefix |-> "PLUGIN", description |-> "built-in",
    pluginType |-> pluginType, builtIn |-> "true", bindCount |-> "0",
    createAt |-> "0", updateAt |-> "0", deleted |-> deleted ]

Dictionaries ==
  { EmptyTable,
    "BuildInPlugins" :>
      [ name |-> "BuildInPlugins",
        data |-> << BuildIn("BUILDIN-1", "Transform", "false"),
                    BuildIn("BUILDIN-2", "Enrich", "true") >> ] }

\* The plugin objects the callers submit.
PluginTypeOf(id) == IF id = "plg1" THEN "Transform" ELSE "Enrich"

\* The record of the last direct store call: its input and whether it was
\* accepted; n alternates so that every call changes the record.
Call(op, arg, ok) ==
  Some([ op |-> op, arg |-> arg, ok |-> ok,
         n |-> IF out = None THEN 0 ELSE 1 - out[1].n ])

\* The step is a direct call of store operation op.
Calls(op) == out' # out /\ out'[1].op = op

PluginAdd ==
  /\ \E id \in PluginIds :
       LET plugin == [id |-> id, description |-> "d1", pluginType |-> PluginTypeOf(id)]
       IN /\ PluginKey(id) \notin DOMAIN table
          /\ table' = addPlugin(table, plugin, now)
          /\ out' = Call("addPlugin", plugin, TRUE)
  /\ UNCHANGED <<dictionary, executions, now, uuid, reqs>>

PluginUpdate ==
  /\ \E id \in PluginIds, description \in {"", "d2"} :
       LET plugin == [id |-> id, description |-> description]
           res == updatePlugin(table, plugin, now)
       IN /\ table' = res.table
          /\ out' = Call("updatePlugin", plugin, res.ok)
  /\ UNCHANGED <<dictionary, executions, now, uuid, reqs>>

PluginDelete ==
  /\ \E id \in PluginIds :
       LET res == deletePlugin(table, id)
       IN /\ table' = res.table
          /\ out' = Call("deletePlugin", [id |-> id], res.ok)
  /\ UNCHANGED <<dictionary, executions, now, uuid, reqs>>

\* bindPlugins(pluginIds, count): the loop makes one remote call per id.
PluginBindStart ==
  /\ reqs[1].pc \in {"idle", "done"}
  /\ \E ids \in {<<"plg1">>, <<"plg2", "plg1">>}, count \in {1, -1} :
       Frame(1, [ IdleFrame EXCEPT !.op = "bindPlugins", !.pc = "bind_item",
                                   !.arg = Some([count |-> count]),
                                   !.items = ids, !.idx = 1 ])
  /\ UNCHANGED <<table, dictionary, executions, now, uuid, out>>

PluginBindItem ==
  /\ reqs[1].pc = "bind_item"
  /\ LET id == reqs[1].items[reqs[1].idx]
         count == reqs[1].arg[1].count
         res == bindPlugin(table, id, count, now)
         last == reqs[1].idx = Len(reqs[1].items)
     IN /\ PluginKey(id) \in DOMAIN table =>
             table[PluginKey(id)].bindCount + count \in (0 - MaxBind)..MaxBind
        /\ table' = res.table
        /\ Frame(1, IF ~res.ok
                    THEN [reqs[1] EXCEPT !.pc = "done", !.resp = NextError("Validation")]
                    ELSE IF last
                    THEN [reqs[1] EXCEPT !.pc = "done", !.writes = @ + 1,
                                         !.resp = ApiSuccess(200, "bound")]
                    ELSE [reqs[1] EXCEPT !.idx = @ + 1, !.writes = @ + 1])
  /\ UNCHANGED <<dictionary, executions, now, uuid, out>>

InitPlugin ==
  /\ table = EmptyTable
  /\ dictionary \in Dictionaries
  /\ executions = EmptyTable
  /\ now = 0
  /\ uuid = 0
  /\ reqs = [r \in Reqs |-> IdleFrame]
  /\ out = None

NextPlugin ==
  \/ PluginAdd
  \/ PluginUpdate
  \/ PluginDelete
  \/ PluginBindStart
  \/ PluginBindItem

SpecPlugin == InitPlugin /\ [][NextPlugin]_vars

\* C5: in every state, no get or list operation returns a record whose
\* deleted flag is true, whatever produced the record (projects, applications,
\* pipeline latest records and snapshots, stored plugins, and the built-in
\* plugins held in the dictionary entry).
C5_ReadsHideDeleted ==
  LET ids == { k[1] : k \in DOMAIN table }
      names == { k[2][2] : k \in DOMAIN table }
      sks == { k[2][3] : k \in { k \in DOMAIN table : k[2][1] = "PIPELINE" } }
      Live(opt) == opt = None \/ ~Deleted(opt[1])
  IN /\ \A id \in ids : Live(getProject(table, id))
     /\ \A id \in ids, n \in names : Live(getApplication(table, id, n))
     /\ \A id \in ids, n \in names, sk \in sks :
          Live(getPipeline(table, id, n, Some(sk)))
     /\ \A id \in ids, n \in names : Live(getPipeline(table, id, n, None))
     /\ \A id \in PluginIds \cup BuildInIds : Live(getPlugin(table, dictionary, id))
     /\ \A item \in listProjectsFilter(table) : ~Deleted(item)
     /\ \A id \in ids : \A item \in listApplicationFilter(table, id) : ~Deleted(item)
     /\ \A id \in ids \cup {""}, v \in sks \cup {""} :
          \A item \in listPipelineFilter(table, id, v) : ~Deleted(item)
     /\ \A pluginType \in PluginTypes \cup {""}, asc \in BOOLEAN :
          \A records \in QueryOrders(listPluginFilter(table, pluginType), asc) :
            LET items == listPlugin(dictionary, records, pluginType, FALSE, 1, 1).items
            IN \A i \in 1..Len(items) : ~Deleted(items[i])

\* C6: updatePlugin and deletePlugin are rejected and leave the plugin item
\* unchanged when its stored bindCount is not 0, and are accepted and persist
\* their change when it is 0.
C6_BindCountGatesMutation ==
  [][ \A id \in PluginIds :
        LET key == PluginKey(id)
            plugin == out'[1].arg
        IN ( /\ Calls("updatePlugin") \/ Calls("deletePlugin")
             /\ plugin.id = id
             /\ key \in DOMAIN table )
           => IF table[key].bindCount # 0
              THEN ~out'[1].ok /\ table' = table
              ELSE /\ out'[1].ok
                   /\ Calls("deletePlugin") =>
                        table' = Put(table, key, [table[key] EXCEPT !.deleted = TRUE])
                   /\ Calls("updatePlugin") =>
                        table' = Put(table, key,
                          [ table[key] EXCEPT
                              !.updateAt = now,
                              !.description = IF plugin.description # ""
                                              THEN plugin.description ELSE @ ]) ]_vars

\* A deletePlugin was rejected on a bound plugin, which is still live.
C6_Witness ==
  /\ out # None /\ out[1].op = "deletePlugin" /\ ~out[1].ok
  /\ PluginKey(out[1].arg.id) \in DOMAIN table
  /\ table[PluginKey(out[1].arg.id)].bindCount # 0
  /\ ~table[PluginKey(out[1].arg.id)].deleted

----------------------------------------------------------------------------
(* The list operations called directly *)

MaxListed == 2
MaxPageSize == 2
MaxPageNumber == 3

\* The record of a list call: its input, the filtered records in the order
\* the index returned them, and the list the call returned.
ListCall(op, arg, records, result) ==
  Some([op |-> op, arg |-> arg, records |-> records, result |-> result])

ListArgs(order) ==
  [ order : {order}, pagination : BOOLEAN,
    pageSize : 1..MaxPageSize, pageNumber : 1..MaxPageNumber ]

StoreCreateProject ==
  /\ \E n \in 1..MaxListed :
       LET id == "p" \o ToString(n) IN
       /\ ProjectKey(id) \notin DOMAIN table
       /\ \A m \in 1..(n - 1) : ProjectKey("p" \o ToString(m)) \in DOMAIN table
       /\ table' = createProject(table, [id |-> id, name |-> id, description |-> ""], now)
  /\ UNCHANGED <<dictionary, executions, now, uuid, reqs, out>>

\* addPipeline called with a pipeline object that may carry a deleted flag;
\* the identifiers are handed out in sequence.
StoreAddPipeline ==
  /\ \E n \in 1..MaxListed, deleted \in {None, Some(TRUE)} :
       LET pipelineId == PipelineId(n) IN
       /\ PipelineKey("p1", pipelineId, "latest") \notin DOMAIN table
       /\ \A m \in 1..(n - 1) :
            PipelineKey("p1", PipelineId(m), "latest") \in DOMAIN table
       /\ table' = addPipeline(table,
            [ id |-> "p1", projectId |-> "p1", pipelineId |-> pipelineId,
              name |-> "a", status |-> Str("RUNNING"), version |-> None,
              createAt |-> None, operator |-> None, deleted |-> deleted,
              executionName |-> None, executionArn |-> None ], now)
  /\ UNCHANGED <<dictionary, executions, now, uuid, reqs, out>>

StoreListProjects ==
  /\ \E order \in {"asc", "desc"} :
       \E records \in QueryOrders(listProjectsFilter(table), order = "asc") :
         \E a \in ListArgs(order) :
           out' = ListCall("listProjects", a, records,
                           Paginate(records, a.pagination, a.pageSize, a.pageNumber))
  /\ UNCHANGED <<table, dictionary, executions, now, uuid, reqs>>

StoreListPipeline ==
  /\ \E order \in {"asc", "desc"}, projectId \in {"p1"}, version \in {"latest"} :
       \E records \in QueryOrders(listPipelineFilter(table, projectId, version),
                                  order = "asc") :
         \E a \in ListArgs(order) :
           out' = ListCall("listPipeline",
                           [projectId |-> projectId, version |-> version] @@ a, records,
                           Paginate(records, a.pagination, a.pageSize, a.pageNumber))
  /\ UNCHANGED <<table, dictionary, executions, now, uuid, reqs>>

NextList ==
  \/ StoreCreateProject
  \/ StoreAddPipeline
  \/ StoreListProjects
  \/ StoreListPipeline

SpecList == Init /\ [][NextList]_vars

\* The last page of a list cut into pages of pageSize: its last
\* ((n - 1) mod pageSize) + 1 records.
LastPage(records, pageSize) ==
  LET n == Len(records)
      k == ((n - 1) % pageSize) + 1
  IN [i \in 1..k |-> records[n - k + i]]

\* C7: with pagination on, pageSize >= 1 and a non-empty filtered result, a
\* page number greater than ceil(total/pageSize) returns exactly the items of
\* the last page, never an empty list.
C7_PageClamped ==
  (out # None /\ out[1].op \in {"listPipeline", "listProjects"}) =>
    LET c == out[1]
        total == Len(c.records)
    IN ( /\ c.arg.pagination
         /\ total > 0
         /\ c.arg.pageNumber * c.arg.pageSize >= total + c.arg.pageSize )
       => /\ c.result.items = LastPage(c.records, c.arg.pageSize)
          /\ c.result.items # <<>>
          /\ c.result.totalCount = total

\* listPipeline was asked for the third page of two records in pages of one,
\* and returned the second record.
C7_Witness ==
  /\ out # None /\ out[1].op = "listPipeline"
  /\ out[1].arg.pagination /\ out[1].arg.pageSize = 1
  /\ Len(out[1].records) = 2
  /\ out[1].arg.pageNumber = 3
  /\ out[1].result.items = <<out[1].records[2]>>

----------------------------------------------------------------------------
(* DynamoDbStore: the soft-delete loops and the in-place pipeline update *)

\* The UpdateCommand of updatePipelineAtCurrentVersion, on the item named by
\* the pipeline object's own projectId and type. updateAt is written as a
\* decimal string there; the model keeps the clock value.
updatePipelineAtCurrentVersion(t, pipeline, clock) ==
  LET key == <<pipeline.projectId, pipeline.type>>
  IN IF key \in DOMAIN t /\ t[key].version = pipeline.version
     THEN [ ok |-> TRUE,
            table |-> Put(t, key,
              [ t[key] EXCEPT
                  !.name          = pipeline.name,
                  !.status        = pipeline.status,
                  !.executionName = pipeline.executionName,
                  !.executionArn  = pipeline.executionArn,
                  !.updateAt      = clock,
                  !.operator      = pipeline.operator ]) ]
     ELSE [ok |-> FALSE, table |-> t]

\* FilterExpression of deleteProject's scan: id = :p AND deleted = false
\* Mutant of deleteProjectScan: only the project's own record is scanned.
deleteProjectScan_OnlyProject(t, id) ==
  { t[k] : k \in { k \in DOMAIN t : k = ProjectKey(id) /\ FilterNotDeleted(t[k]) } }

deleteProjectScan(t, id) ==
  { t[k] : k \in { k \in DOMAIN t : k[1] = id /\ FilterNotDeleted(t[k]) } }

\* Mutant of deleteProjectItem: the item is removed from the table.
deleteProjectItem_Removes(t, id, item) ==
  [k \in DOMAIN t \ {<<id, item.type>>} |-> t[k]]

\* The UpdateCommand of deleteProject's loop: SET deleted = true
deleteProjectItem(t, id, item) ==
  LET key == <<id, item.type>>
  IN Put(t, key, [t[key] EXCEPT !.deleted = TRUE])

----------------------------------------------------------------------------
(* The store called directly by one caller at a time; a loop of remote calls *)
(* takes one step per call and may be cut short by a crash of the caller.    *)

\* No call of a loop is in flight and none waits for its retry.
Quiet == reqs[1].pc = "idle"

ListedIds == {PipelineId(n) : n \in 1..MaxListed}

\* updatePipeline(pipeline, curPipeline) with the latest record just read
\* (fresh) or with a pipeline object that carries another version.
StoreUpdatePipeline ==
  /\ Quiet
  /\ \E pipelineId \in ListedIds, status \in {Str("RUNNING"), Obj("UPDATING")},
        fresh \in BOOLEAN :
       LET cur == getPipeline(table, "p1", pipelineId, None)
       IN /\ cur # None
          /\ table' = updatePipeline(table,
                        [ id |-> "p1", projectId |-> "p1", pipelineId |-> pipelineId,
                          prefix |-> "PIPELINE", name |-> "b", status |-> status,
                          version |-> IF fresh THEN cur[1].version ELSE "stale",
                          executionName |-> "main-x", executionArn |-> "arn:main-x",
                          operator |-> "", deleted |-> FALSE ],
                        cur[1], now).table
  /\ UNCHANGED <<dictionary, executions, now, uuid, reqs, out>>

\* updatePipelineAtCurrentVersion(pipeline) with a pipeline object read by
\* getPipeline(projectId, pipelineId, version), changed by the caller.
StoreUpdateAtCurrentVersion ==
  /\ Quiet
  /\ \E pipelineId \in ListedIds, version \in {None} \cup {Some(v) : v \in VersionTokens} :
       LET cur == getPipeline(table, "p1", pipelineId, version)
       IN /\ cur # None
          /\ table' = updatePipelineAtCurrentVersion(table,
                        [cur[1] EXCEPT !.name = "b"], now).table
  /\ UNCHANGED <<dictionary, executions, now, uuid, reqs, out>>

\* deletePipeline(projectId, pipelineId): the frame keeps the table the run
\* (and, after a crash, its retry) started from.
StoreDeletePipeline ==
  /\ Quiet
  /\ \E id \in ListedIds \cup {IdPrefix} :
       Frame(1, [ IdleFrame EXCEPT !.op = "delete", !.pc = "delete_scan",
                                   !.arg = Some([pid |-> "p1", id |-> id]),
                                   !.body = Some(table) ])
  /\ UNCHANGED <<table, dictionary, executions, now, uuid, out>>

StoreDeleteProject ==
  /\ Quiet
  /\ Frame(1, [ IdleFrame EXCEPT !.op = "deleteProject", !.pc = "project_scan",
                                 !.arg = Some([pid |-> "p1"]),
                                 !.body = Some(table) ])
  /\ UNCHANGED <<table, dictionary, executions, now, uuid, out>>

DeleteProjectAdvance(f, from) ==
  IF from > Len(f.items)
  THEN [f EXCEPT !.pc = "done", !.idx = from, !.resp = ApiSuccess(200, "deleted")]
  ELSE [f EXCEPT !.pc = "project_item", !.idx = from]

DeleteProjectScan ==
  /\ reqs[1].pc = "project_scan"
  /\ \E projects \in ScanOrders(deleteProjectScan(table, reqs[1].arg[1].pid)) :
       Frame(1, DeleteProjectAdvance([reqs[1] EXCEPT !.items = projects], 1))
  /\ UNCHANGED <<table, dictionary, executions, now, uuid, out>>

DeleteProjectItem ==
  /\ reqs[1].pc = "project_item"
  /\ table' = deleteProjectItem(table, reqs[1].arg[1].pid, reqs[1].items[reqs[1].idx])
  /\ Frame(1, DeleteProjectAdvance([reqs[1] EXCEPT !.writes = @ + 1], reqs[1].idx + 1))
  /\ UNCHANGED <<dictionary, executions, now, uuid, out>>

\* The caller dies between two remote calls of a loop; seen keeps how the
\* earlier attempt at this call ended.
StoreCrash ==
  /\ reqs[1].pc \in {"delete_scan", "delete_item", "project_scan", "project_item"}
  /\ Frame(1, [reqs[1] EXCEPT !.pc = "crashed", !.items = <<>>, !.idx = 0,
                              !.seen = <<[end |-> "crashed", writes |-> reqs[1].writes]>>])
  /\ UNCHANGED <<table, dictionary, executions, now, uuid, out>>

\* The same call is made again, after the crash or after the call resolved.
StoreRetry ==
  /\ \/ reqs[1].pc = "crashed"
     \/ /\ reqs[1].pc = "done"
        /\ reqs[1].resp # None /\ reqs[1].resp[1].success
  /\ Frame(1, [reqs[1] EXCEPT
                 !.pc = IF reqs[1].op = "delete" THEN "delete_scan" ELSE "project_scan",
                 !.items = <<>>, !.idx = 0, !.writes = 0, !.resp = None,
                 !.seen = IF reqs[1].pc = "done"
                          THEN <<[end |-> "resolved", writes |-> reqs[1].writes]>>
                          ELSE @ ])
  /\ UNCHANGED <<table, dictionary, executions, now, uuid, out>>

\* The loop's promise settles and the caller goes on.
StoreReturn ==
  /\ reqs[1].pc = "done"
  /\ Frame(1, IdleFrame)
  /\ UNCHANGED <<table, dictionary, executions, now, uuid, out>>

NextStore ==
  \/ Quiet /\ StoreCreateProject
  \/ Quiet /\ StoreAddPipeline
  \/ StoreUpdatePipeline
  \/ StoreUpdateAtCurrentVersion
  \/ StoreDeletePipeline
  \/ DeleteScan(1)
  \/ DeleteItem(1)
  \/ StoreDeleteProject
  \/ DeleteProjectScan
  \/ DeleteProjectItem
  \/ StoreCrash
  \/ StoreRetry
  \/ StoreReturn

SpecStore == Init /\ [][NextStore]_vars

----------------------------------------------------------------------------
(* deletePipeline, run to completion *)

\* A deletePipeline call has resolved; t0 is the table it started from.
DeleteCompleted ==
  /\ reqs[1].op = "delete"
  /\ reqs[1].pc = "done"
  /\ reqs[1].resp = ApiSuccess(200, "Pipeline deleted.")

\* The records of pipeline pipelineId of the project: latest and snapshots.
RecordsOf(t, projectId, pipelineId) ==
  { k \in DOMAIN t : k[1] = projectId /\ k[2][1] = "PIPELINE" /\ k[2][2] = pipelineId }

\* C11: a deletePipeline(projectId, pipelineId) that ran to completion with no
\* other writer has set deleted = true and status DELETING on every record of
\* that pipeline that was live when it started, and has left every record of
\* every other pipeline of the project as it was.
C11_DeleteMarksOnlyThatPipeline ==
  DeleteCompleted =>
    LET t0 == reqs[1].body[1]
        a  == reqs[1].arg[1]
        own == RecordsOf(t0, a.pid, a.id)
    IN /\ DOMAIN table = DOMAIN t0
       /\ \A k \in own :
            t0[k].deleted = FALSE =>
              /\ table[k].deleted = TRUE
              /\ table[k].status = Obj("DELETING")
       /\ \A k \in DOMAIN t0 \ own :
            (k[1] = a.pid /\ k[2][1] = "PIPELINE") => table[k] = t0[k]

----------------------------------------------------------------------------
(* The soft-delete loops under retry *)

\* The table one uninterrupted deletePipeline(projectId, pipelineId) that
\* resolves leaves behind when it starts from t: every live record its filter
\* matches is marked, nothing else is touched.
PipelineRun(t, projectId, pipelineId) ==
  [ k \in DOMAIN t |->
      IF /\ k[1] = projectId
         /\ k[2][1] = "PIPELINE"
         /\ BeginsWith(k[2][2], pipelineId)
         /\ t[k].deleted = FALSE
      THEN [ t[k] EXCEPT !.deleted = TRUE,
                         !.status = IF @.obj THEN Obj("DELETING") ELSE @ ]
      ELSE t[k] ]

\* The same for deleteProject(id).
ProjectRun(t, id) ==
  [ k \in DOMAIN t |->
      IF k[1] = id /\ t[k].deleted = FALSE
      THEN [t[k] EXCEPT !.deleted = TRUE]
      ELSE t[k] ]

\* One uninterrupted run of the call of frame f, from table t.
Run(f, t) ==
  IF f.op = "delete"
  THEN PipelineRun(t, f.arg[1].pid, f.arg[1].id)
  ELSE ProjectRun(t, f.arg[1].pid)

LoopResolved ==
  /\ reqs[1].op \in {"delete", "deleteProject"}
  /\ reqs[1].pc = "done"
  /\ reqs[1].resp # None /\ reqs[1].resp[1].success

\* C12: with t0 the table the first attempt of a deletePipeline or
\* deleteProject call started from: at every point of the call and of its
\* retries one uninterrupted run would end where it would have ended from
\* t0; an attempt that resolves, be it the first one, one made again after a
\* crash part-way through the loop or one made again after a resolved run,
\* ends in exactly the table one uninterrupted run from t0 ends in; and that
\* table is one a further run leaves unchanged.
C12_SoftDeleteIdempotent ==
  reqs[1].op \in {"delete", "deleteProject"} =>
    LET t0 == reqs[1].body[1]
    IN /\ Run(reqs[1], table) = Run(reqs[1], t0)
       /\ LoopResolved =>
            /\ table = Run(reqs[1], t0)
            /\ Run(reqs[1], table) = table

\* A deletePipeline run crashed after marking some of the live records, was
\* made again, marked the remaining ones and resolved.
C12_Witness ==
  /\ LoopResolved
  /\ reqs[1].op = "delete"
  /\ reqs[1].seen # <<>>
  /\ reqs[1].seen[1].end = "crashed"
  /\ reqs[1].seen[1].writes >= 1
  /\ reqs[1].writes >= 1

----------------------------------------------------------------------------
(* PipelineServ: a store or workflow-engine call that rejects *)

\* Every position of a handler stands before one awaited remote call.
AwaitPcs ==
  { "add_generate", "add_execute", "add_save", "update_get", "update_write",
    "details_get", "details_status", "details_write",
    "list_query", "list_status", "list_write", "delete_scan", "delete_item" }

\* Errors a remote call may reject with, besides the conflict of updatePipeline.
RemoteErrors == {"ThrottlingException", "InternalServerError"}

\* Mutant of Catch: the handler answers with a success response.
Catch_Swallows(f, error) ==
  [f EXCEPT !.pc = "done", !.resp = ApiSuccess(200, error)]

\* `catch (error) { next(error); }`
Catch(f, error) == [f EXCEPT !.pc = "done", !.resp = NextError(error)]

\* The awaited call of request r rejects with error; the call has no effect
\* and out keeps the error it rejected with.
RemoteFails(r) ==
  /\ reqs[r].pc \in AwaitPcs
  /\ \E error \in RemoteErrors :
       /\ Frame(r, Catch(reqs[r], error))
       /\ out' = Some([r |-> r, error |-> error])
  /\ UNCHANGED <<table, dictionary, executions, now, uuid>>

\* The handlers of PipelineServ, each remote call of which may reject; the
\* clock and the engine stand still.
NextFail ==
  \/ \E r \in Reqs : AddStart(r)
  \/ \E r \in Reqs : AddGenerateWorkflow(r)
  \/ \E r \in Reqs : AddExecute(r)
  \/ \E r \in Reqs : AddSave(r)
  \/ \E r \in Reqs : UpdateStart(r)
  \/ \E r \in Reqs : UpdateGet(r)
  \/ \E r \in Reqs : UpdateWrite(r)
  \/ \E r \in Reqs : DetailsStart(r)
  \/ \E r \in Reqs : DetailsGet(r)
  \/ \E r \in Reqs : DetailsStatus(r)
  \/ \E r \in Reqs : DetailsWrite(r)
  \/ \E r \in Reqs : ListStart(r)
  \/ \E r \in Reqs : ListQuery(r)
  \/ \E r \in Reqs : ListStatus(r)
  \/ \E r \in Reqs : ListWrite(r)
  \/ \E r \in Reqs : DeleteStart(r)
  \/ \E r \in Reqs : DeleteScan(r)
  \/ \E r \in Reqs : DeleteItem(r)
  \/ \E r \in Reqs : RemoteFails(r)

SpecFail == Init /\ [][NextFail]_vars

\* The pipeline request r asks for is missing when its read is answered.
PipelineMissing(r) ==
  \/ /\ reqs[r].pc = "update_get"
     /\ getPipeline(table, reqs[r].body[1].id, reqs[r].body[1].pipelineId, None) = None
  \/ /\ reqs[r].pc = "details_get"
     /\ getPipeline(table, reqs[r].arg[1].pid, reqs[r].arg[1].id, None) = None

\* The transaction of request r's updatePipeline is cancelled.
TransactionCancelled(r) ==
  /\ reqs[r].pc = "update_write"
  /\ ~updatePipeline(table, reqs[r].body[1], reqs[r].cur[1], now).ok

----------------------------------------------------------------------------
(* Version snapshots *)

\* The key of a version snapshot: type PIPELINE#<pipelineId>#<version> with
\* a version other than latest.
IsSnapshot(k) == k[2][1] = "PIPELINE" /\ k[2][3] # "latest"

\* C14: a version snapshot, once created, stays in the table with every
\* attribute as it was created, whatever store operation runs afterwards; of
\* the records of a pipeline only the latest one is ever modified.
C14_SnapshotsImmutable ==
  [][ \A k \in DOMAIN table :
        IsSnapshot(k) => k \in DOMAIN table' /\ table'[k] = table[k] ]_vars

----------------------------------------------------------------------------
(* Projects: create, read, soft delete *)

ProjectIds == {"p" \o ToString(n) : n \in 1..MaxListed}

\* A deleteProject call has resolved.
ProjectDeleteResolved == LoopResolved /\ reqs[1].op = "deleteProject"

\* C15: right after createProject(p), getProject(p.id) returns a project with
\* the name and the description p was created with; once deleteProject(id)
\* has resolved, getProject(id) returns nothing while the project's record is
\* still in the table, with deleted = true; and no step of any store
\* operation removes a record from the table.
C15_ProjectRoundTrip ==
  /\ [][ \A id \in ProjectIds :
           (ProjectKey(id) \notin DOMAIN table /\ ProjectKey(id) \in DOMAIN table') =>
             /\ getProject(table', id) # None
             /\ getProject(table', id)[1].name = id
             /\ getProject(table', id)[1].description = "" ]_vars
  /\ [][ DOMAIN table \subseteq DOMAIN table' ]_vars
  /\ [](ProjectDeleteResolved =>
          LET id == reqs[1].arg[1].pid
          IN /\ getProject(table, id) = None
             /\ ProjectKey(id) \in DOMAIN reqs[1].body[1] =>
                  /\ ProjectKey(id) \in DOMAIN table
                  /\ table[ProjectKey(id)].deleted = TRUE)

\* A project that getProject returned when deleteProject was called is, now
\* that the call has resolved, no longer returned and still stored.
C15_Witness ==
  /\ ProjectDeleteResolved
  /\ getProject(reqs[1].body[1], reqs[1].arg[1].pid) # None
  /\ getProject(table, reqs[1].arg[1].pid) = None
  /\ ProjectKey(reqs[1].arg[1].pid) \in DOMAIN table

----------------------------------------------------------------------------
(* The workflow engine as seen from PipelineServ *)

\* C16: a step of a list, details, update or delete request leaves the
\* engine's executions as they are; the only step of the service that changes
\* them is the execute call of an add, which a request makes at most once and
\* which starts one execution, the one named by that add's executionName, not
\* started before, for a pipeline that has no record yet.
C16_OnlyAddExecutes ==
  [][ \A r \in Reqs :
           reqs'[r] # reqs[r] =>
             /\ executions' # executions =>
                  /\ reqs[r].op = "add"
                  /\ reqs[r].pc = "add_execute"
                  /\ AddArn(r) \notin DOMAIN executions
                  /\ executions' = Put(executions, AddArn(r), "RUNNING")
                  /\ PipelineKey(reqs[r].body[1].id, reqs[r].body[1].pipelineId,
                                 "latest") \notin DOMAIN table
             /\ reqs'[r].pc = "add_execute" => reqs[r].pc = "add_generate"
             /\ reqs[r].pc = "add_execute" => reqs'[r].pc # "add_execute" ]_vars

\* An add has started its execution and saved the pipeline, an update and a
\* delete of that pipeline have succeeded, and the engine holds that one
\* execution.
C16_Witness ==
  \E r1, r2, r3 \in Reqs :
    /\ reqs[r1].op = "add" /\ reqs[r1].pc = "done" /\ reqs[r1].resp[1].success
    /\ reqs[r2].op = "update" /\ reqs[r2].pc = "done" /\ reqs[r2].resp[1].success
    /\ reqs[r3].op = "delete" /\ reqs[r3].pc = "done" /\ reqs[r3].writes >= 1
    /\ DOMAIN executions = {AddArn(r1)}

----------------------------------------------------------------------------
(* Plugins: the reads over the dictionary entry and the table *)

\* The record of a direct read: its input, the order the index returned the
\* stored records in, and what the read returned.
ReadCall(op, arg, records, result) ==
  Some([op |-> op, arg |-> arg, records |-> records, result |-> result, n |-> 0])

PluginList ==
  /\ \E pluginType \in {"", "Transform", "Enrich"}, order \in {"asc", "desc"} :
       \E records \in QueryOrders(listPluginFilter(table, pluginType), order = "asc") :
         \E a \in ListArgs(order) :
           out' = ReadCall("listPlugin", [pluginType |-> pluginType] @@ a, records,
                           listPlugin(dictionary, records, pluginType,
                                      a.pagination, a.pageSize, a.pageNumber))
  /\ UNCHANGED <<table, dictionary, executions, now, uuid, reqs>>

PluginGet ==
  /\ \E pluginId \in PluginIds \cup BuildInIds \cup {"BUILDIN-9"} :
       out' = ReadCall("getPlugin", [pluginId |-> pluginId], <<>>,
                       getPlugin(table, dictionary, pluginId))
  /\ UNCHANGED <<table, dictionary, executions, now, uuid, reqs>>

NextPluginRead ==
  \/ PluginAdd
  \/ PluginDelete
  \/ PluginList
  \/ PluginGet

SpecPluginRead == InitPlugin /\ [][NextPluginRead]_vars

\* The data of the 'BuildInPlugins' dictionary entry, converted; empty when
\* the dictionary holds no such entry.
BuildInEntry ==
  IF "BuildInPlugins" \in DOMAIN dictionary
  THEN ParseBuildIns(dictionary["BuildInPlugins"].data)
  ELSE <<>>

\* The stored plugins that are not deleted, of the type asked for if any.
StoredLive(pluginType) ==
  { table[k] : k \in { k \in DOMAIN table :
                         /\ k[2][1] = "PLUGIN"
                         /\ table[k].deleted = FALSE
                         /\ (pluginType # "" => table[k].pluginType = pluginType) } }

----------------------------------------------------------------------------
(* DynamoDbStore: the request-id marker *)

\* `ttl: Date.now() / 1000 + 600`: milliseconds to seconds, plus ten minutes.
MsPerSecond == 1000
TtlSeconds == 600

\* The clock of this part advances in steps of StepSeconds, MaxTime + 1 times.
StepSeconds == 400
RequestIds == {"r1", "r2"}

RequestIdKey(id) == <<id, <<"REQUESTID">>>>

saveRequestId(t, id, clock) ==
  Put(t, RequestIdKey(id),
      [ id |-> id, type |-> <<"REQUESTID">>,
        ttl |-> (clock \div MsPerSecond) + TtlSeconds ])

\* `if (!result.Item) return false; return true;`
isRequestIdExisted(t, id) == RequestIdKey(id) \in DOMAIN t

\* The item's ttl attribute lies in the past.
Expired(item, clock) == item.ttl * MsPerSecond < clock

RequestSave ==
  /\ \E id \in RequestIds :
       /\ table' = saveRequestId(table, id, now)
       /\ out' = Some([op |-> "saveRequestId", id |-> id, result |-> TRUE, at |-> now])
  /\ UNCHANGED <<dictionary, executions, now, uuid, reqs>>

RequestCheck ==
  /\ \E id \in RequestIds :
       out' = Some([ op |-> "isRequestIdExisted", id |-> id,
                     result |-> isRequestIdExisted(table, id), at |-> now ])
  /\ UNCHANGED <<table, dictionary, executions, now, uuid, reqs>>

Elapse ==
  /\ now < (MaxTime + 1) * StepSeconds * MsPerSecond
  /\ now' = now + StepSeconds * MsPerSecond
  /\ UNCHANGED <<table, dictionary, executions, uuid, reqs, out>>

\* The table's time-to-live process removes an expired item, some time after
\* it expired.
TtlSweep ==
  /\ \E k \in DOMAIN table :
       /\ Expired(table[k], now)
       /\ table' = [j \in DOMAIN table \ {k} |-> table[j]]
  /\ UNCHANGED <<dictionary, executions, now, uuid, reqs, out>>

NextRequestId ==
  \/ RequestSave
  \/ RequestCheck
  \/ Elapse
  \/ TtlSweep

SpecRequestId == Init /\ [][NextRequestId]_vars

\* C18: isRequestIdExisted(id) returns true exactly when a marker saved for
\* id has not yet expired, that is up to 600 seconds after the last
\* saveRequestId(id), and false when id was never saved or its marker has
\* expired; a marker that has not expired is not removed.
C18_MarkerLivesTenMinutes ==
  /\ [][ \A id \in RequestIds :
           (out' # out /\ out'[1].op = "isRequestIdExisted" /\ out'[1].id = id) =>
             out'[1].result =
               ( /\ RequestIdKey(id) \in DOMAIN table
                 /\ ~Expired(table[RequestIdKey(id)], now) ) ]_vars
  /\ [][ \A k \in DOMAIN table :
           ~Expired(table[k], now) => k \in DOMAIN table' ]_vars

----------------------------------------------------------------------------
(* Counting version snapshots *)

\* The snapshot keys of pipeline pipelineId of the project.
SnapshotsOf(t, projectId, pipelineId) ==
  { k \in RecordsOf(t, projectId, pipelineId) : IsSnapshot(k) }

\* The update requests on that pipeline that were answered with success.
SucceededUpdates(projectId, pipelineId) ==
  { r \in Reqs : /\ IsUpdate(r)
                 /\ reqs[r].pc = "done"
                 /\ reqs[r].resp[1].success
                 /\ UpdNew(r).id = projectId
                 /\ UpdNew(r).pipelineId = pipelineId }

\* C20: an updatePipeline that succeeds adds exactly one record to the
\* table, a snapshot that was not there, keyed by and holding the version the
\* latest record held just before, and one that is rejected adds none; so
\* the snapshots of a pipeline are as many as its successful updates; and a
\* pipeline's latest record, once added, is in the table ever after.
C20_OneSnapshotPerUpdate ==
  /\ [][ \A r \in Reqs : UpdateReturns(r) =>
           IF reqs'[r].resp[1].success
           THEN /\ UpdSnapKey(r) \notin DOMAIN table
                /\ DOMAIN table' = DOMAIN table \cup {UpdSnapKey(r)}
                /\ UpdSnapKey(r)[2][3] = table[UpdLatestKey(r)].version
                /\ table'[UpdSnapKey(r)].version = table[UpdLatestKey(r)].version
                /\ \A k \in DOMAIN table : IsSnapshot(k) => table'[k] = table[k]
           ELSE table' = table ]_vars
  /\ [](\A projectId \in Projects, pipelineId \in PipelineIds :
          Cardinality(SnapshotsOf(table, projectId, pipelineId))
            = Cardinality(SucceededUpdates(projectId, pipelineId)))
  /\ [][ \A k \in DOMAIN table :
           (k[2][1] = "PIPELINE" /\ k[2][3] = "latest") => k \in DOMAIN table' ]_vars

\* Two updates of one pipeline have succeeded and its two snapshots hold the
\* two versions the latest record held before them.
C20_Witness ==
  \E r1, r2 \in Reqs :
    /\ r1 # r2
    /\ IsUpdate(r1) /\ IsUpdate(r2)
    /\ {r1, r2} \subseteq SucceededUpdates(UpdNew(r1).id, UpdNew(r1).pipelineId)
    /\ UpdSnapKey(r1) # UpdSnapKey(r2)
    /\ SnapshotsOf(table, UpdNew(r1).id, UpdNew(r1).pipelineId)
         = {UpdSnapKey(r1), UpdSnapKey(r2)}

----------------------------------------------------------------------------
(* Walking the pages of a list *)

\* A caller asks listPlugin for page 1, 2, ... of one result; seen keeps the
\* order the index returns the stored records in, which stays the same while
\* the table does.
PagesStart ==
  /\ Quiet
  /\ \E pluginType \in {"", "Enrich"}, pageSize \in 1..MaxPageSize :
       \E records \in QueryOrders(listPluginFilter(table, pluginType), TRUE) :
         Frame(1, [ IdleFrame EXCEPT
                      !.op = "pages", !.pc = "pages_call",
                      !.arg = Some([pluginType |-> pluginType, pageSize |-> pageSize]),
                      !.seen = records, !.idx = 1 ])
  /\ UNCHANGED <<table, dictionary, executions, now, uuid, out>>

PagesCall ==
  /\ reqs[1].pc = "pages_call"
  /\ LET f == reqs[1]
         a == f.arg[1]
         result == listPlugin(dictionary, f.seen, a.pluginType, TRUE, a.pageSize, f.idx)
         last == f.idx >= CeilDiv(result.totalCount, a.pageSize)
     IN /\ Frame(1, [f EXCEPT !.items = @ \o result.items,
                              !.total = result.totalCount,
                              !.pc = IF last THEN "done" ELSE @,
                              !.idx = IF last THEN @ ELSE @ + 1,
                              !.resp = IF last THEN ApiSuccess(200, "pages") ELSE @])
        /\ out' = ReadCall("listPlugin",
                           [ pluginType |-> a.pluginType, order |-> "asc",
                             pagination |-> TRUE, pageSize |-> a.pageSize,
                             pageNumber |-> f.idx ],
                           f.seen, result)
  /\ UNCHANGED <<table, dictionary, executions, now, uuid>>

PagesReturn ==
  /\ reqs[1].op = "pages"
  /\ reqs[1].pc = "done"
  /\ Frame(1, IdleFrame)
  /\ UNCHANGED <<table, dictionary, executions, now, uuid, out>>

NextPages ==
  \/ Quiet /\ PluginAdd
  \/ Quiet /\ PluginDelete
  \/ Quiet /\ PluginList
  \/ PagesStart
  \/ PagesCall
  \/ PagesReturn

SpecPages == InitPlugin /\ [][NextPages]_vars

\* The full filtered result of listPlugin for the type asked for, given the
\* order of the stored records.
FullResult(pluginType, records) ==
  SelectSeq(BuildInEntry, LAMBDA p : pluginType # "" => p.pluginType = pluginType)
    \o records

\* C21: with pagination on and pageSize >= 1 the pages 1, 2, ... of a list,
\* concatenated as they are returned, are at every point the leading part of
\* the full filtered result and, after page ceil(total/pageSize), the full
\* result itself with each item exactly once; every page holds at most
\* pageSize items; totalCount is the size of the full result on every call,
\* whatever page is asked for; and with pagination off the items are the
\* full result.
C21_PagesCoverResult ==
  /\ reqs[1].op = "pages" =>
       LET f == reqs[1]
           full == FullResult(f.arg[1].pluginType, f.seen)
       IN /\ Len(f.items) <= Len(full)
          /\ f.items = SubSeqOrEmpty(full, 1, Len(f.items))
          /\ f.pc = "pages_call" =>
               Len(f.items) = Min((f.idx - 1) * f.arg[1].pageSize, Len(full))
          /\ f.pc = "done" =>
               /\ f.items = full
               /\ f.total = Len(full)
               /\ \A i, j \in 1..Len(f.items) : f.items[i] = f.items[j] => i = j
               /\ f.idx = CeilDiv(Len(full), f.arg[1].pageSize) \/ full = <<>>
  /\ (out # None /\ out[1].op = "listPlugin") =>
       LET c == out[1]
           full == FullResult(c.arg.pluginType, c.records)
       IN /\ c.result.totalCount = Len(full)
          /\ c.arg.pagination => Len(c.result.items) <= c.arg.pageSize
          /\ ~c.arg.pagination => c.result.items = full

\* Three plugins were listed in two pages of two: the walk has ended and the
\* second page held the one remaining item.
C21_Witness ==
  /\ reqs[1].op = "pages"
  /\ reqs[1].pc = "done"
  /\ reqs[1].arg[1].pageSize = 2
  /\ Len(reqs[1].items) = 3
  /\ reqs[1].idx = 2
  /\ Len(out[1].result.items) = 1

----------------------------------------------------------------------------
(* The version of the latest record *)

\* C22: every successful updatePipeline gives the latest record a version it
\* did not hold just before, also when the clock has not advanced since the
\* version was set; so in every state the version of a pipeline's latest
\* record is the version of none of its snapshots, and an update built on
\* the current latest version is not rejected by the snapshot's guard.
C22_VersionAdvances ==
  /\ [][ \A r \in Reqs :
           UpdateSucceeds(r) =>
             table'[UpdLatestKey(r)].version # table[UpdLatestKey(r)].version ]_vars
  /\ [](\A projectId \in Projects, pipelineId \in PipelineIds :
          LET latestKey == PipelineKey(projectId, pipelineId, "latest")
          IN latestKey \in DOMAIN table =>
               /\ \A k \in SnapshotsOf(table, projectId, pipelineId) :
                    table[k].version # table[latestKey].version
               /\ PutCondition(table, PipelineKey(projectId, pipelineId,
                                                  table[latestKey].version)))

----------------------------------------------------------------------------
(* What updatePipeline leaves alone *)

\* C23: a successful updatePipeline leaves the latest record's executionName,
\* executionArn, deleted flag and createAt as they were, whatever the new
\* pipeline object carries; so the latest record of a pipeline holds the
\* handle its add stored for as long as it is in the table.
C23_UpdateKeepsHandle ==
  /\ [][ \A r \in Reqs :
           UpdateSucceeds(r) =>
             LET k == UpdLatestKey(r)
             IN /\ table'[k].executionName = table[k].executionName
                /\ table'[k].executionArn = table[k].executionArn
                /\ table'[k].deleted = table[k].deleted
                /\ table'[k].createAt = table[k].createAt ]_vars
  /\ [](\A r \in Reqs :
          (IsAdd(r) /\ reqs[r].pc = "done" /\ reqs[r].resp[1].success) =>
            /\ table[AddLatestKey(r)].executionName = reqs[r].body[1].executionName[1]
            /\ table[AddLatestKey(r)].executionArn
                 = OrElse(reqs[r].body[1].executionArn, ""))

\* An update carrying another handle has succeeded on a pipeline whose add
\* stored the handle execute returned.
C23_Witness ==
  \E r1, r2 \in Reqs :
    /\ IsAdd(r1) /\ reqs[r1].pc = "done" /\ reqs[r1].resp[1].success
    /\ IsUpdate(r2) /\ reqs[r2].pc = "done" /\ reqs[r2].resp[1].success
    /\ table[AddLatestKey(r1)].executionArn = AddArn(r1)
    /\ UpdNew(r2).executionArn # AddArn(r1)
    /\ table[AddLatestKey(r1)].name = UpdNew(r2).name

----------------------------------------------------------------------------
(* A write-back with updatePipelineAtCurrentVersion beside updatePipeline *)

\* A caller reads a pipeline record (request 2) ...
WriteBackRead ==
  /\ reqs[2].pc = "idle"
  /\ \E pipelineId \in ListedIds, version \in {None} \cup {Some(v) : v \in VersionTokens} :
       LET cur == getPipeline(table, "p1", pipelineId, version)
       IN /\ cur # None
          /\ reqs' = [reqs EXCEPT ![2] =
               [ IdleFrame EXCEPT !.op = "writeback", !.pc = "writeback_write",
                                  !.cur = cur ]]
  /\ UNCHANGED <<table, dictionary, executions, now, uuid, out>>

\* ... and later writes it back, changed, at the version it read.
WriteBackWrite ==
  /\ reqs[2].pc = "writeback_write"
  /\ LET res == updatePipelineAtCurrentVersion(table,
                  [reqs[2].cur[1] EXCEPT !.name = "c", !.status = Str("SUCCEEDED")], now)
     IN /\ table' = res.table
        /\ reqs' = [reqs EXCEPT ![2] =
             [ @ EXCEPT !.pc = "done",
                        !.writes = IF res.ok THEN 1 ELSE 0,
                        !.resp = IF res.ok THEN ApiSuccess(200, "written")
                                 ELSE NextError("ConditionalCheckFailed") ]]
  /\ UNCHANGED <<dictionary, executions, now, uuid, out>>

WriteBackReturn ==
  /\ reqs[2].op = "writeback"
  /\ reqs[2].pc = "done"
  /\ reqs' = [reqs EXCEPT ![2] = IdleFrame]
  /\ UNCHANGED <<table, dictionary, executions, now, uuid, out>>

\* addPipeline for the first pipeline only.
StoreAddOnePipeline ==
  /\ PipelineKey("p1", PipelineId(1), "latest") \notin DOMAIN table
  /\ StoreAddPipeline

NextWriteBack ==
  \/ StoreAddOnePipeline
  \/ StoreUpdatePipeline
  \/ WriteBackRead
  \/ WriteBackWrite
  \/ WriteBackReturn
  \/ Tick

SpecWriteBack == Init /\ [][NextWriteBack]_vars

\* C24: updatePipelineAtCurrentVersion writes exactly when the stored record
\* holds the version of the pipeline object and otherwise leaves the table
\* as it is; a write adds no record and leaves version, versionTag, deleted
\* and createAt of the record as they were; and a write-back built from a
\* record that a successful updatePipeline has changed since it was read is
\* rejected, so the newer state is not overwritten.
C24_WriteBackGuarded ==
  [][ (reqs[2].pc = "writeback_write" /\ reqs'[2].pc = "done") =>
        LET cur == reqs[2].cur[1]
            key == <<cur.projectId, cur.type>>
            written == reqs'[2].resp[1].success
        IN /\ written <=> (key \in DOMAIN table /\ table[key].version = cur.version)
           /\ ~written => table' = table
           /\ written =>
                /\ DOMAIN table' = DOMAIN table
                /\ \A k \in DOMAIN table : k # key => table'[k] = table[k]
                /\ table'[key].version = table[key].version
                /\ table'[key].versionTag = table[key].versionTag
                /\ table'[key].deleted = table[key].deleted
                /\ table'[key].createAt = table[key].createAt
           /\ (key \in DOMAIN table /\ table[key] # cur) => ~written ]_vars

----------------------------------------------------------------------------
(* The execution and the record of an add *)

\* C25: when PipelineServ.add has finished, with success or with an error,
\* the execution that request started exists in the workflow engine exactly
\* when the latest record of its pipeline exists in the store.
C25_ExecutionIffRecord ==
  \A r \in Reqs :
    (IsAdd(r) /\ reqs[r].pc = "done" /\ reqs[r].body # None
       /\ reqs[r].body[1].executionName # None) =>
      (AddArn(r) \in DOMAIN executions <=> AddLatestKey(r) \in DOMAIN table)

----------------------------------------------------------------------------
(* Bound and deleted plugins *)

\* C26: in every state, whatever the interleaving of addPlugin, bindPlugins,
\* updatePlugin and deletePlugin, no plugin record is both soft-deleted and
\* bound (deleted = true together with bindCount different from 0).
C26_BoundNeverDeleted ==
  \A k \in DOMAIN table :
    table[k].prefix = "PLUGIN" => ~(table[k].deleted /\ table[k].bindCount # 0)

----------------------------------------------------------------------------
(* DynamoDbStore: applications, and the existence checks *)

AppIds == {"app1"}

addApplication(t, app, clock) ==
  Put(t, <<app.id, <<"APP", app.appId>>>>,
      [ id |-> app.id, type |-> <<"APP", app.appId>>, prefix |-> "APP",
        projectId |-> app.projectId, appId |-> app.appId, name |-> app.name,
        description |-> app.description, androidPackage |-> "",
        createAt |-> clock, updateAt |-> clock, operator |-> "", deleted |-> FALSE ])

\* project && !project.deleted, on the item of a GetCommand
isProjectExisted(t, projectId) ==
  ProjectKey(projectId) \in DOMAIN t /\ ~Deleted(t[ProjectKey(projectId)])

isApplicationExisted(t, projectId, appId) ==
  /\ ApplicationKey(projectId, appId) \in DOMAIN t
  /\ ~Deleted(t[ApplicationKey(projectId, appId)])

isPipelineExisted(t, projectId, pipelineId) ==
  /\ PipelineKey(projectId, pipelineId, "latest") \in DOMAIN t
  /\ ~Deleted(t[PipelineKey(projectId, pipelineId, "latest")])

----------------------------------------------------------------------------
(* deleteProject over a project with applications and pipelines *)

StoreAddApplication ==
  /\ \E projectId \in ProjectIds, appId \in AppIds :
       /\ ApplicationKey(projectId, appId) \notin DOMAIN table
       /\ table' = addApplication(table,
            [ id |-> projectId, projectId |-> projectId, appId |-> appId,
              name |-> appId, description |-> "d1" ], now)
  /\ UNCHANGED <<dictionary, executions, now, uuid, reqs, out>>

\* One caller at a time, and every loop runs to its end.
NextCascade ==
  \/ Quiet /\ StoreCreateProject
  \/ Quiet /\ StoreAddApplication
  \/ Quiet /\ StoreAddOnePipeline
  \/ StoreUpdatePipeline
  \/ StoreDeleteProject
  \/ DeleteProjectScan
  \/ DeleteProjectItem
  \/ StoreReturn

SpecCascade == Init /\ [][NextCascade]_vars

----------------------------------------------------------------------------
(* deletePipeline beside updatePipeline *)

\* C28: when a deletePipeline that found the pipeline stored and an
\* updatePipeline on the same pipeline have both finished, however their
\* remote calls interleaved and with no other request under way, no record
\* of that pipeline is live (deleted = false):
\* getPipeline, for the latest record or for any version, and listPipeline
\* return nothing for it.
C28_DeleteBesideUpdate ==
  \A r1, r2 \in Reqs :
    ( /\ reqs[r1].op = "delete" /\ reqs[r1].pc = "done" /\ reqs[r1].resp[1].success
      /\ reqs[r1].items # <<>>
      /\ IsUpdate(r2) /\ reqs[r2].pc = "done"
      /\ UpdNew(r2).id = reqs[r1].arg[1].pid
      /\ UpdNew(r2).pipelineId = reqs[r1].arg[1].id
      /\ \A r \in Reqs \ {r1, r2} : reqs[r].pc \in {"idle", "done"} ) =>
      LET pid == reqs[r1].arg[1].pid
          id  == reqs[r1].arg[1].id
      IN /\ \A k \in RecordsOf(table, pid, id) : table[k].deleted
         /\ \A version \in {None} \cup {Some(v) : v \in VersionTokens} :
              getPipeline(table, pid, id, version) = None
         /\ \A rec \in listPipelineFilter(table, pid, "") : rec.pipelineId # id

----------------------------------------------------------------------------
(* DynamoDbStore: updateProject and updateApplication *)

\* An UpdateCommand with SET clauses and no ConditionExpression: the clauses
\* are applied to the item under the key, or, when the table has none, to a
\* new item that holds the key attributes only.
UpdateItem(t, key, sets) ==
  LET base == IF key \in DOMAIN t THEN t[key] ELSE [id |-> key[1], type |-> key[2]]
  IN Put(t, key, [ a \in DOMAIN base \cup DOMAIN sets |->
                     IF a \in DOMAIN sets THEN sets[a] ELSE base[a] ])

\* `if (x) { ... SET attr = x }`: the empty string sets nothing.
SetIf(attr, value) == IF isEmpty(value) THEN <<>> ELSE (attr :> value)

updateProject(t, project, clock) ==
  UpdateItem(t, ProjectKey(project.id),
             ("updateAt" :> clock) @@ SetIf("name", project.name)
               @@ SetIf("description", project.description)
               @@ SetIf("status", project.status))

updateApplication(t, app, clock) ==
  UpdateItem(t, ApplicationKey(app.projectId, app.appId),
             ("updateAt" :> clock) @@ SetIf("description", app.description)
               @@ SetIf("androidPackage", app.androidPackage))

----------------------------------------------------------------------------
(* Projects and applications created, updated and soft-deleted *)

StoreUpdateProject ==
  /\ \E id \in ProjectIds, name \in {"", "n2"}, status \in {"", "ACTIVED"} :
       LET project == [id |-> id, name |-> name, description |-> "d2", status |-> status]
       IN /\ table' = updateProject(table, project, now)
          /\ out' = Call("updateProject", project, TRUE)
  /\ UNCHANGED <<dictionary, executions, now, uuid, reqs>>

StoreUpdateApplication ==
  /\ \E projectId \in ProjectIds, appId \in AppIds, description \in {"", "d2"} :
       LET app == [ projectId |-> projectId, appId |-> appId,
                    description |-> description, androidPackage |-> "pkg" ]
       IN /\ table' = updateApplication(table, app, now)
          /\ out' = Call("updateApplication", app, TRUE)
  /\ UNCHANGED <<dictionary, executions, now, uuid, reqs>>

NextEntity ==
  \/ Quiet /\ StoreCreateProject
  \/ Quiet /\ StoreAddApplication
  \/ Quiet /\ StoreUpdateProject
  \/ Quiet /\ StoreUpdateApplication
  \/ StoreDeleteProject
  \/ DeleteProjectScan
  \/ DeleteProjectItem
  \/ StoreReturn

SpecEntity == Init /\ [][NextEntity]_vars

\* C29: an updateProject or updateApplication on an id that the reads report
\* as not found (no record, or a soft-deleted one) leaves it not found:
\* getProject / getApplication return nothing and isProjectExisted /
\* isApplicationExisted answer false afterwards; and in every state the
\* entities a get returns are the entities the list query returns.
C29_UpdateKeepsHidden ==
  /\ [][ Calls("updateProject") =>
           LET id == out'[1].arg.id
           IN getProject(table, id) = None =>
                /\ getProject(table', id) = None
                /\ ~isProjectExisted(table', id) ]_vars
  /\ [][ Calls("updateApplication") =>
           LET a == out'[1].arg
           IN getApplication(table, a.projectId, a.appId) = None =>
                /\ getApplication(table', a.projectId, a.appId) = None
                /\ ~isApplicationExisted(table', a.projectId, a.appId) ]_vars
  /\ [](\A id \in ProjectIds :
          /\ getProject(table, id) # None
               <=> \E rec \in listProjectsFilter(table) : rec.id = id
          /\ \A appId \in AppIds :
               getApplication(table, id, appId) # None
                 <=> \E rec \in listApplicationFilter(table, id) : rec.appId = appId)

----------------------------------------------------------------------------
(* A status write-back beside deletePipeline *)

\* The write-back of request 2 beside the deletePipeline of caller 1; the
\* clock stands still.
NextStale ==
  \/ StoreAddOnePipeline
  \/ StoreUpdatePipeline
  \/ WriteBackRead
  \/ WriteBackWrite
  \/ WriteBackReturn
  \/ StoreDeletePipeline
  \/ DeleteScan(1)
  \/ DeleteItem(1)
  \/ StoreReturn

SpecStale == Init /\ [][NextStale]_vars

\* C30: once deletePipeline has set a record's status to DELETING and its
\* deleted flag, a write-back of a status built from a read of the record
\* made before the deletion leaves the status DELETING and the record
\* deleted.
C30_DeletingSurvivesWriteBack ==
  [][ (reqs[2].pc = "writeback_write" /\ reqs'[2].pc = "done") =>
        LET cur == reqs[2].cur[1]
            key == <<cur.projectId, cur.type>>
        IN (key \in DOMAIN table /\ table[key].deleted
              /\ table[key].status = Obj("DELETING")) =>
             /\ table'[key].status = Obj("DELETING")
             /\ table'[key].deleted ]_vars

====
